---------------------------- MODULE Spec2Model ----------------------------
(***************************************************************************)
(* Model of the trade-analysis pipeline's asset valuation engine           *)
(* (pipeline/stage3_cache_values.py), of the constants and validators it   *)
(* uses, and of the driver that runs it (update_dashboard.py).             *)
(*                                                                         *)
(* Text is modelled as a sequence of one-character strings, a date string  *)
(* 'YYYY-MM-DD' as the triple <<y, m, d>>, a datetime at midnight as a day *)
(* ordinal, a DataFrame of values as a sequence of rows, a dict as a       *)
(* function.  Names that are only compared (owners, commit shas, steps)    *)
(* are strings.                                                            *)
(***************************************************************************)
EXTENDS Integers, Sequences, FiniteSets, TLC

\* A missing text (NaN in a DataFrame, None in a dict): no sequence of characters.
NaN == <<"NaN">>
\* A missing origin_owner, read from the CSV as float NaN.
NoOwner == "nan"

-----------------------------------------------------------------------------
(* Text *)

UpperChars == <<"A","B","C","D","E","F","G","H","I","J","K","L","M",
                "N","O","P","Q","R","S","T","U","V","W","X","Y","Z">>
LowerChars == <<"a","b","c","d","e","f","g","h","i","j","k","l","m",
                "n","o","p","q","r","s","t","u","v","w","x","y","z">>
DigitChars == <<"0","1","2","3","4","5","6","7","8","9">>

LowerChar(c) ==
    IF \E i \in 1..26 : UpperChars[i] = c
    THEN LowerChars[CHOOSE i \in 1..26 : UpperChars[i] = c]
    ELSE c

IsDigit(c) == \E i \in 1..10 : DigitChars[i] = c
DigitVal(c) == (CHOOSE i \in 1..10 : DigitChars[i] = c) - 1
IsSpace(c) == c = " "

\* The least element of a set of numbers, 0 for the empty set.
MinOrZero(S) == IF S = {} THEN 0 ELSE CHOOSE i \in S : \A j \in S : i <= j

\* Python's  sub in s : literal, case-sensitive.
MatchLiteralAt(sub, s, i) == \A k \in 1..Len(sub) : s[i + k - 1] = sub[k]
StrIn(sub, s) == \E i \in 1..(Len(s) - Len(sub) + 1) : MatchLiteralAt(sub, s, i)

\* s.find(sub) from 1: the first index where sub occurs in s, 0 when none.
Find(sub, s) ==
    MinOrZero({i \in 1..(Len(s) - Len(sub) + 1) : MatchLiteralAt(sub, s, i)})

\* pandas  Series.str.contains(pat, case=False, na=False) : pat is a regular
\* expression searched anywhere in the name, ignoring case; '.' in pat matches
\* any character.  The modelled alphabet holds no other metacharacter.
RegexMatchAt(pat, s, i) ==
    \A k \in 1..Len(pat) :
        pat[k] = "." \/ LowerChar(pat[k]) = LowerChar(s[i + k - 1])
StrContains(s, pat) ==
    /\ s # NaN
    /\ \E i \in 1..(Len(s) - Len(pat) + 1) : RegexMatchAt(pat, s, i)

\* str.strip()
RECURSIVE LStrip(_)
LStrip(s) == IF s # <<>> /\ IsSpace(Head(s)) THEN LStrip(Tail(s)) ELSE s
RECURSIVE RStrip(_)
RStrip(s) ==
    IF s # <<>> /\ IsSpace(s[Len(s)]) THEN RStrip(SubSeq(s, 1, Len(s) - 1)) ELSE s
Strip(s) == LStrip(RStrip(s))

\* str.split() : the whitespace-separated words.
RECURSIVE SplitWords(_)
WordEnd(t) == MinOrZero({i \in 1..(Len(t) + 1) : i = Len(t) + 1 \/ IsSpace(t[i])})
SplitAt(t, e) == <<SubSeq(t, 1, e - 1)>> \o SplitWords(SubSeq(t, e, Len(t)))
SplitStripped(t) == IF t = <<>> THEN <<>> ELSE SplitAt(t, WordEnd(t))
SplitWords(s) == SplitStripped(LStrip(s))

\* str.replace(sub, '')
RECURSIVE Remove(_, _)
RemoveAt(s, sub, i) ==
    IF i = 0 THEN s
    ELSE SubSeq(s, 1, i - 1) \o Remove(SubSeq(s, i + Len(sub), Len(s)), sub)
Remove(s, sub) == RemoveAt(s, sub, Find(sub, s))

\* int(text) : decimal digits with surrounding blanks; anything else in the
\* modelled alphabet raises ValueError.
IsDigits(s) == s # <<>> /\ \A i \in 1..Len(s) : IsDigit(s[i])
IsInt(s) == IsDigits(Strip(s))
RECURSIVE DigitsValue(_)
DigitsValue(s) ==
    IF s = <<>> THEN 0
    ELSE 10 * DigitsValue(SubSeq(s, 1, Len(s) - 1)) + DigitVal(s[Len(s)])
ParseInt(s) == DigitsValue(Strip(s))

\* str(n) and f"{n:02d}" for n >= 0.
RECURSIVE FormatInt(_)
FormatInt(n) ==
    IF n < 10 THEN <<DigitChars[n + 1]>>
    ELSE FormatInt(n \div 10) \o <<DigitChars[(n % 10) + 1]>>
Format02d(n) == IF n < 10 THEN <<"0">> \o FormatInt(n) ELSE FormatInt(n)

-----------------------------------------------------------------------------
(* Dates: datetime.strptime(s, '%Y-%m-%d'), timedelta and strftime *)

IsLeap(y) == (y % 4 = 0 /\ y % 100 # 0) \/ y % 400 = 0
DaysInMonth(y, m) ==
    IF m = 2 THEN (IF IsLeap(y) THEN 29 ELSE 28)
    ELSE IF m \in {4, 6, 9, 11} THEN 30 ELSE 31
DaysInYear(y) == IF IsLeap(y) THEN 366 ELSE 365

RECURSIVE DaysBeforeYear(_)
DaysBeforeYear(y) == IF y <= 2024 THEN 0 ELSE DaysBeforeYear(y - 1) + DaysInYear(y - 1)
RECURSIVE DaysBeforeMonth(_, _)
DaysBeforeMonth(y, m) == IF m <= 1 THEN 0 ELSE DaysBeforeMonth(y, m - 1) + DaysInMonth(y, m - 1)

\* Days from 2024-01-01 to the date (a datetime at midnight).
ToOrdinal(date) == DaysBeforeYear(date[1]) + DaysBeforeMonth(date[1], date[2]) + date[3] - 1

RECURSIVE DateInYear(_, _)
RECURSIVE DateInMonth(_, _, _)
DateInMonth(n, y, m) ==
    IF n < DaysInMonth(y, m) THEN <<y, m, n + 1>> ELSE DateInMonth(n - DaysInMonth(y, m), y, m + 1)
DateInYear(n, y) ==
    IF n < DaysInYear(y) THEN DateInMonth(n, y, 1) ELSE DateInYear(n - DaysInYear(y), y + 1)
FromOrdinal(n) == DateInYear(n, 2024)

-----------------------------------------------------------------------------
(* Literal texts of the source *)

Lit ==
    [Round     |-> <<"R","o","u","n","d">>,
     FAAB      |-> <<" ","F","A","A","B">>,
     Dollar    |-> <<"$">>,
     Week      |-> <<"W","e","e","k">>,
     Round2025 |-> <<"2","0","2","5"," ","R","o","u","n","d">>,
     Pick2025  |-> <<"2","0","2","5"," ","P","i","c","k"," ">>,
     Y2026     |-> <<"2","0","2","6">>,
     Y2027     |-> <<"2","0","2","7">>,
     Y2028     |-> <<"2","0","2","8">>,
     Sep2026   |-> <<"_","2","0","2","6","_">>,
     First     |-> <<" ","1","s","t">>,
     Th        |-> <<"t","h">>,
     PostDraft |-> <<" ","(","p","o","s","t","-","d","r","a","f","t",")">>]

-----------------------------------------------------------------------------
(* pipeline/constants.py *)

EARLY_FIRST == 5430
MID_FIRST == 2558
LATE_FIRST == 1232

\* PickTier.get_value with the Early tier ending one slot sooner.
PickTier_get_value_shifted(pick_in_round) ==
    IF pick_in_round <= 3 THEN EARLY_FIRST
    ELSE IF pick_in_round <= 8 THEN MID_FIRST
    ELSE LATE_FIRST

\* PickTier.get_value
PickTier_get_value(pick_in_round) ==
    IF pick_in_round <= 4 THEN EARLY_FIRST
    ELSE IF pick_in_round <= 8 THEN MID_FIRST
    ELSE LATE_FIRST

\* PickTier.get_tier_name
PickTier_get_tier_name(pick_in_round) ==
    IF pick_in_round <= 4 THEN <<"E","a","r","l","y">>
    ELSE IF pick_in_round <= 8 THEN <<"M","i","d">>
    ELSE <<"L","a","t","e">>

DRAFT_COMPLETION_DATE == ToOrdinal(<<2025, 5, 5>>)
SEASON_START_DATE == ToOrdinal(<<2025, 9, 3>>)
FAAB_VALUE_PER_DOLLAR == 1
GIT_COMMIT_SEARCH_DAYS == 7

ROUND_ORDINALS ==
    <<  <<"1","s","t">>, <<"2","n","d">>, <<"3","r","d">>, <<"4","t","h">>, <<"5","t","h">>  >>

\* ROUND_ORDINALS.get(n) and ROUND_ORDINALS.get(n, f'{n}th')
RoundOrdinalGet(n) == IF n \in 1..5 THEN ROUND_ORDINALS[n] ELSE NaN
RoundOrdinalGetDefault(n, text) == IF n \in 1..5 THEN ROUND_ORDINALS[n] ELSE text \o Lit.Th

-----------------------------------------------------------------------------
(* pipeline/pick_origin_mapping.py *)

LeagueSize == 12

Round1Origins ==
    <<"tylerpilgrim", "wkerwin", "zachlearningtogolf", "brevinowens",
      "jwalters74", "donewton", "lndahayo", "thekylecasey",
      "mgaeta23", "cjsyregelas", "jakeduf", "gnewman4">>

Owners == {Round1Origins[i] : i \in 1..LeagueSize}

\* EXPLICIT_ORIGINS: round 1 as given, rounds 2..4 replicate round 1.
EXPLICIT_ORIGINS ==
    [k \in (1..4) \X (1..LeagueSize) |-> Round1Origins[k[2]]]

get_pick_origin_owner(round_num, pick_in_round) ==
    IF <<round_num, pick_in_round>> \in DOMAIN EXPLICIT_ORIGINS
    THEN EXPLICIT_ORIGINS[<<round_num, pick_in_round>>]
    ELSE "UNKNOWN_R" \o ToString(round_num) \o "P" \o ToString(pick_in_round)

-----------------------------------------------------------------------------
(* Names and labels *)

\* f"{season} Round {round_num}" (stage2_extract_assets.py)
PickLabel(season, round_num) == FormatInt(season) \o <<" ">> \o Lit.Round \o <<" ">> \o FormatInt(round_num)
\* The same label when the league's trade record carries no round: pick.get('round')
\* is None and the f-string prints it as None.
PickLabelNoRound(season) ==
    FormatInt(season) \o <<" ">> \o Lit.Round \o <<" ","N","o","n","e">>
\* f"${amount} FAAB" (stage2_extract_assets.py)
FaabLabel(amount) == Lit.Dollar \o FormatInt(amount) \o Lit.FAAB
\* f"{round_num}.{pick_in_round:02d}"
PickPosition(round_num, pick_in_round) ==
    FormatInt(round_num) \o <<".">> \o Format02d(pick_in_round)
\* f"2025 Pick {round_num}.{pick_in_round:02d}"
ExactPickName(round_num, pick_in_round) == Lit.Pick2025 \o PickPosition(round_num, pick_in_round)
\* f"{year} {ordinal}" with year a text
GenericPickName(year, ordinal) == year \o <<" ">> \o ordinal
\* f'Week{week}_2026_{round_name}'
WeekColumnName(week, round_name) == Lit.Week \o FormatInt(week) \o Lit.Sep2026 \o round_name

\* The player drafted at a slot in the modelled draft results.
RookieName(round_num, pick_in_round) ==
    <<"R","k">> \o FormatInt(round_num) \o <<"-">> \o Format02d(pick_in_round)

JoshAllen == <<"J","o","s","h"," ","A","l","l","e","n">>
TyreekHill == <<"T","y","r","e","e","k"," ","H","i","l","l">>
KennethWalker == <<"K","e","n","n","e","t","h"," ","W","a","l","k","e","r">>
KennethWalkerIII == KennethWalker \o <<" ","I","I","I">>
\* A name with full stops, and a name that differs from it where the stops are.
DJMoore == <<"D",".","J","."," ","M","o","o","r","e">>
DXJXMoore == <<"D","X","J","X"," ","M","o","o","r","e">>
UnlistedPlayer == <<"P","r","a","c","t","i","c","e"," ","S","q","u","a","d"," ","G","u","y">>

-----------------------------------------------------------------------------
(* Draft results (sleeper_rookie_draft_2025.csv) and the pick lineage *)

DraftRow(round_num, pick_in_round) ==
    [Round |-> round_num, PickInRound |-> pick_in_round,
     Owner |-> Round1Origins[(pick_in_round % LeagueSize) + 1],
     Player |-> RookieName(round_num, pick_in_round),
     Pick |-> (round_num - 1) * LeagueSize + pick_in_round]

\* A complete two-round draft, in pick order.
FullDraft ==
    [i \in 1..(2 * LeagueSize) |->
        DraftRow(((i - 1) \div LeagueSize) + 1, ((i - 1) % LeagueSize) + 1)]
\* An export taken while round 1 was still running.
PartialDraft == SubSeq(FullDraft, 1, 8)

Drafts == {FullDraft, PartialDraft}

\* Module-level loop of stage3_cache_values.py building PICK_LINEAGE: each draft
\* row is appended, in file order, under (origin owner, round).
LineageEntry(row) ==
    [final_owner |-> row.Owner, pick_in_round |-> row.PickInRound,
     player |-> row.Player, overall_pick |-> row.Pick]
\* The key with the round left at 1 for every row.
LineageKey_round_one(row) == <<get_pick_origin_owner(row.Round, row.PickInRound), 1>>
LineageKey(row) == <<get_pick_origin_owner(row.Round, row.PickInRound), row.Round>>
RowsUnderKey(draft, key) == SelectSeq(draft, LAMBDA row : LineageKey(row) = key)
RECURSIVE MapLineage(_)
MapLineage(rows) ==
    IF rows = <<>> THEN <<>> ELSE <<LineageEntry(Head(rows))>> \o MapLineage(Tail(rows))
BuildLineage(draft) ==
    [key \in {LineageKey(draft[i]) : i \in 1..Len(draft)} |->
        MapLineage(RowsUnderKey(draft, key))]

\* PICK_LINEAGE.get(key, [])
LineageGet(lineage, key) == IF key \in DOMAIN lineage THEN lineage[key] ELSE <<>>

-----------------------------------------------------------------------------
(* Value tables: a DataFrame with columns player, value_2qb *)

\* df[df['player'].str.contains(pat, case=False, na=False)]
Matches(df, pat) == SelectSeq(df, LAMBDA row : StrContains(row.player, pat))

\* A provenance tag: a fixed prefix and the text formatted into it.
Src(kind, detail) == [kind |-> kind, detail |-> detail]
\* A metadata dict: its items in order, None is the empty sequence.
Item(key, text) == [k |-> key, v |-> text]
\* What a valuator returns: (value, source, metadata), or the exception it raises.
Ret(value, source, meta) == [value |-> value, source |-> source, meta |-> meta, exc |-> ""]
Raise(exc) == [value |-> 0, source |-> Src("", <<>>), meta |-> <<>>, exc |-> exc]
\* Falling out of a projection block to the code after it.
Pass == Raise("pass")

\* The lookup marking a miss with -1 instead of 0.
FirstMatch_miss_negative(matches, source, meta, otherwise) ==
    IF matches # <<>> THEN Ret(matches[1].value_2qb, source, meta)
    ELSE [otherwise EXCEPT !.value = -1]

\* matches.iloc[0]['value_2qb'] with the given tag when there is a match,
\* otherwise what the code goes on to return.
FirstMatch(matches, source, meta, otherwise) ==
    IF matches # <<>> THEN Ret(matches[1].value_2qb, source, meta) ELSE otherwise

\* bool(origin_owner): a non-empty string and float NaN are both true.
Truthy(origin_owner) == origin_owner # ""

-----------------------------------------------------------------------------
(* get_2025_pick_value *)

\* s.split(sep)[1] : the text between the first sep and the next one (or the
\* end); NaN when s holds no sep (IndexError).
AfterSep(s, sep, i) == IF i = 0 THEN NaN ELSE SubSeq(s, i + Len(sep), Len(s))
BeforeSep(s, i) == IF i = 0 THEN s ELSE SubSeq(s, 1, i - 1)
SecondOf(after, sep) == IF after = NaN THEN NaN ELSE BeforeSep(after, Find(sep, after))
SplitSecond(s, sep) == SecondOf(AfterSep(s, sep, Find(sep, s)), sep)

\* The player's value in the table, tagged Player:<player><suffix>.
PlayerValue2025(df_values, player, suffix, meta) ==
    FirstMatch(Matches(df_values, player), Src("Player:", player \o suffix), meta,
               Ret(0, Src("Player not found:", player), <<>>))

\* Pre-draft, at trade, no exact slot in the table: the tier of a first-round
\* slot, the generic 2026 pick of the round for the other rounds.
TierFallback(round_num, pick_in_round, tier_name) ==
    Ret(PickTier_get_value(pick_in_round), Src("Tier:", tier_name \o Lit.First),
        <<Item("tier", tier_name),
          Item("pick_position", PickPosition(round_num, pick_in_round))>>)
GenericFallback2025(df_values, ordinal) ==
    FirstMatch(Matches(df_values, GenericPickName(Lit.Y2026, ordinal)),
               Src("Fallback:Generic ", ordinal), <<>>,
               Ret(0, Src("Not found", <<>>), <<>>))

\* The fallback consulted before the exact slot.
ExactOrFallback_fallback_first(df_values, round_num, pick_in_round, exact_pick) ==
    IF round_num = 1
    THEN TierFallback(round_num, pick_in_round, PickTier_get_tier_name(pick_in_round))
    ELSE FirstMatch(Matches(df_values, GenericPickName(Lit.Y2026, RoundOrdinalGetDefault(round_num, FormatInt(round_num)))),
                    Src("Fallback:Generic ", RoundOrdinalGetDefault(round_num, FormatInt(round_num))), <<>>,
                    FirstMatch(Matches(df_values, exact_pick), Src("Git:", exact_pick),
                               <<Item("pick_exact", exact_pick)>>,
                               Ret(0, Src("Not found", <<>>), <<>>)))

\* Pre-draft, at trade: the exact slot's value from the table, else the fallback.
ExactOrFallback(df_values, round_num, pick_in_round, exact_pick) ==
    FirstMatch(Matches(df_values, exact_pick), Src("Git:", exact_pick),
               <<Item("pick_exact", exact_pick)>>,
               IF round_num = 1
               THEN TierFallback(round_num, pick_in_round,
                                 PickTier_get_tier_name(pick_in_round))
               ELSE GenericFallback2025(df_values,
                        RoundOrdinalGetDefault(round_num, FormatInt(round_num))))

\* get_2025_pick_value with the draft-completion date itself counted as pre-draft.
get_2025_pick_value_slot_inclusive(round_num, pick_in_round, player, trade_dt, df_values, is_current) ==
    IF trade_dt <= DRAFT_COMPLETION_DATE
    THEN IF is_current
         THEN PlayerValue2025(df_values, player, <<>>,
                  <<Item("player", player),
                    Item("pick_position", PickPosition(round_num, pick_in_round))>>)
         ELSE ExactOrFallback(df_values, round_num, pick_in_round,
                              ExactPickName(round_num, pick_in_round))
    ELSE PlayerValue2025(df_values, player, Lit.PostDraft, <<Item("player", player)>>)

\* The function from the first lineage entry on.
get_2025_pick_value_slot(round_num, pick_in_round, player, trade_dt, df_values, is_current) ==
    IF trade_dt < DRAFT_COMPLETION_DATE
    THEN IF is_current
         THEN PlayerValue2025(df_values, player, <<>>,
                  <<Item("player", player),
                    Item("pick_position", PickPosition(round_num, pick_in_round))>>)
         ELSE ExactOrFallback(df_values, round_num, pick_in_round,
                              ExactPickName(round_num, pick_in_round))
    ELSE PlayerValue2025(df_values, player, Lit.PostDraft, <<Item("player", player)>>)

\* The lineage lookup indexing the list without testing it.
get_2025_pick_value_lineage_unchecked(lineage_list, round_num, trade_date, df_values, is_current) ==
    IF lineage_list = <<>>
    THEN Raise("IndexError")
    ELSE get_2025_pick_value_slot(round_num, lineage_list[1].pick_in_round,
                                  lineage_list[1].player, ToOrdinal(trade_date),
                                  df_values, is_current)

\* The function from the lineage lookup on.
get_2025_pick_value_lineage(lineage_list, round_num, trade_date, df_values, is_current) ==
    IF lineage_list = <<>>
    THEN Ret(0, Src("No lineage", <<>>), <<>>)
    ELSE get_2025_pick_value_slot(round_num, lineage_list[1].pick_in_round,
                                  lineage_list[1].player, ToOrdinal(trade_date),
                                  df_values, is_current)

\* The function from the parse of the round on; piece is what follows 'Round'.
get_2025_pick_value_round(lineage, piece, origin_owner, trade_date, df_values, is_current) ==
    IF piece = NaN \/ ~IsInt(piece)
    THEN Ret(0, Src("Parse error", <<>>), <<>>)
    ELSE get_2025_pick_value_lineage(
             LineageGet(lineage, <<origin_owner, ParseInt(piece)>>),
             ParseInt(piece), trade_date, df_values, is_current)

get_2025_pick_value(lineage, pick_name, origin_owner, trade_date, df_values, is_current) ==
    get_2025_pick_value_round(lineage, SplitSecond(pick_name, Lit.Round), origin_owner,
                              trade_date, df_values, is_current)

-----------------------------------------------------------------------------
(* Weekly projections (weekly_2026_pick_projections_expanded.csv): a DataFrame *)
(* with the columns Team, Tier and Week<w>_2026_<round>                        *)

\* re.match(f'Week(\\d+)_2026_{round_name}', col): the week number when the column
\* name starts with the pattern, -1 otherwise.
RECURSIVE DigitRun(_, _)
DigitRun(s, i) == IF i <= Len(s) /\ IsDigit(s[i]) THEN DigitRun(s, i + 1) ELSE i - 1
MatchWeekTail(col, tail, last) ==
    IF /\ Len(col) >= 5
       /\ SubSeq(col, 1, 4) = Lit.Week
       /\ last >= 5
       /\ Len(col) >= last + Len(tail)
       /\ SubSeq(col, last + 1, last + Len(tail)) = tail
    THEN ParseInt(SubSeq(col, 5, last))
    ELSE -1
MatchWeekColumn(col, round_name) ==
    MatchWeekTail(col, Lit.Sep2026 \o round_name, DigitRun(col, 5))

\* sorted(list)
RECURSIVE SortedInsert(_, _)
SortedInsert(sorted, w) ==
    IF sorted = <<>> THEN <<w>>
    ELSE IF w < Head(sorted) THEN <<w>> \o sorted
    ELSE <<Head(sorted)>> \o SortedInsert(Tail(sorted), w)
RECURSIVE Sorted(_)
Sorted(weeks) == IF weeks = <<>> THEN <<>> ELSE SortedInsert(Sorted(Tail(weeks)), Head(weeks))

WeekIfMatch(w) == IF w >= 0 THEN <<w>> ELSE <<>>
RECURSIVE WeeksOfColumns(_, _)
WeeksOfColumns(columns, round_name) ==
    IF columns = <<>> THEN <<>>
    ELSE WeekIfMatch(MatchWeekColumn(Head(columns), round_name))
         \o WeeksOfColumns(Tail(columns), round_name)

get_available_weeks(columns, round_name) == Sorted(WeeksOfColumns(columns, round_name))

SeqMax(weeks) == CHOOSE w \in {weeks[i] : i \in 1..Len(weeks)} :
                    \A i \in 1..Len(weeks) : weeks[i] <= w
SeqMin(weeks) == CHOOSE w \in {weeks[i] : i \in 1..Len(weeks)} :
                    \A i \in 1..Len(weeks) : w <= weeks[i]
SeqHas(weeks, w) == \E i \in 1..Len(weeks) : weeks[i] = w

\* get_best_week_column's selection taking the earliest week not after the target.
SelectWeek_earliest(available_weeks, target_week) ==
    IF SeqHas(available_weeks, target_week) THEN target_week
    ELSE IF \E i \in 1..Len(available_weeks) : available_weeks[i] <= target_week
    THEN SeqMin(SelectSeq(available_weeks, LAMBDA w : w <= target_week))
    ELSE SeqMin(available_weeks)

\* The week get_best_week_column selects among the available weeks (not empty).
SelectWeek(available_weeks, target_week) ==
    IF SeqHas(available_weeks, target_week) THEN target_week
    ELSE IF \E i \in 1..Len(available_weeks) : available_weeks[i] <= target_week
    THEN SeqMax(SelectSeq(available_weeks, LAMBDA w : w <= target_week))
    ELSE SeqMin(available_weeks)

\* (column_name, week); week -1 stands for the ValueError raised when no weekly
\* column exists.
ColumnOfWeek(week, round_name) ==
    IF week = -1 THEN [column |-> NaN, week |-> -1]
    ELSE [column |-> WeekColumnName(week, round_name), week |-> week]

BestWeek(available_weeks, target_week) ==
    IF available_weeks = <<>> THEN -1 ELSE SelectWeek(available_weeks, target_week)
get_best_week_column(columns, round_name, target_week) ==
    ColumnOfWeek(BestWeek(get_available_weeks(columns, round_name), target_week), round_name)

LatestWeek(available_weeks) ==
    IF available_weeks = <<>> THEN -1 ELSE SeqMax(available_weeks)
get_latest_week_column(columns, round_name) ==
    ColumnOfWeek(LatestWeek(get_available_weeks(columns, round_name)), round_name)

\* PICK_PROJECTIONS[PICK_PROJECTIONS['Team'] == origin_owner]
TeamRows(projections, origin_owner) ==
    SelectSeq(projections.rows, LAMBDA row : row.Team = origin_owner)
HasColumn(columns, column) == \E i \in 1..Len(columns) : columns[i] = column

\* The week held at 18, as the week of the projections update is.
WeekOfDays_capped(days) ==
    IF (days \div 7) + 1 > 18 THEN 18
    ELSE IF (days \div 7) + 1 > 2 THEN (days \div 7) + 1 ELSE 2

\* max(2, (days // 7) + 1) with days = (trade_dt - SEASON_START_DATE).days
WeekOfDays(days) == IF (days \div 7) + 1 > 2 THEN (days \div 7) + 1 ELSE 2
TargetWeek(trade_dt) == WeekOfDays(trade_dt - SEASON_START_DATE)

-----------------------------------------------------------------------------
(* get_2026_plus_pick_value *)

\* The 2026 block from the column selection on.
Projection2026Cell(team_row, columns, origin_owner, round_name, week, best) ==
    IF best.week = -1 THEN Pass
    ELSE IF ~HasColumn(columns, best.column) THEN Raise("KeyError")
    ELSE Ret(team_row[1].cells[best.column],
             Src("Projection:", Lit.Week \o FormatInt(best.week) \o <<"_">> \o round_name),
             <<Item("week", FormatInt(best.week)), Item("target_week", FormatInt(week)),
               Item("origin", <<origin_owner>>), Item("round", round_name),
               Item("column_used", best.column)>>)

\* The 2027/2028 block from the column selection on.
ProjectionLatestCell(team_row, columns, origin_owner, round_name, latest) ==
    IF latest.week = -1 THEN Pass
    ELSE IF ~HasColumn(columns, latest.column) THEN Raise("KeyError")
    ELSE Ret(team_row[1].cells[latest.column],
             Src("Projection:", latest.column),
             <<Item("origin", <<origin_owner>>), Item("round", round_name),
               Item("latest_week_used", FormatInt(latest.week)),
               Item("column_used", latest.column)>>)

\* A projection block taking the first row of the file when the team has none.
ProjectionOfTeam_any_team(team_row, columns, origin_owner, round_name, week) ==
    IF round_name = NaN THEN Pass
    ELSE IF week = -1
    THEN ProjectionLatestCell(<<[Team |-> origin_owner, Tier |-> "Mid",
                                 cells |-> [c \in {columns[i] : i \in 1..Len(columns)} |-> 777]]>>,
                              columns, origin_owner, round_name,
                              get_latest_week_column(columns, round_name))
    ELSE Projection2026Cell(<<[Team |-> origin_owner, Tier |-> "Mid",
                               cells |-> [c \in {columns[i] : i \in 1..Len(columns)} |-> 777]]>>,
                            columns, origin_owner, round_name, week,
                            get_best_week_column(columns, round_name, week))

\* A projection block from the team lookup on: week is the target week of the
\* 2026 block, -1 in the 2027/2028 block.
ProjectionOfTeam(team_row, columns, origin_owner, round_name, week) ==
    IF round_name = NaN \/ team_row = <<>> THEN Pass
    ELSE IF week = -1
    THEN ProjectionLatestCell(team_row, columns, origin_owner, round_name,
                              get_latest_week_column(columns, round_name))
    ELSE Projection2026Cell(team_row, columns, origin_owner, round_name, week,
                            get_best_week_column(columns, round_name, week))

ProjectionBlock(projections, origin_owner, round_num, week) ==
    ProjectionOfTeam(TeamRows(projections, origin_owner), projections.columns,
                     origin_owner, RoundOrdinalGet(round_num), week)

\* The generic value of the table for f"{year} {ordinal}".
GenericMatch(df_values, search) ==
    FirstMatch(Matches(df_values, search), Src("Fallback:Generic:", search), <<>>,
               Ret(0, Src("Not found", <<>>), <<>>))
GenericFallback(df_values, year, round_text) ==
    GenericMatch(df_values,
        GenericPickName(year, RoundOrdinalGetDefault(ParseInt(round_text), round_text)))

\* What the first result leaves to the next block.
OrElse(result, next) == IF result.exc = "pass" THEN next ELSE result

\* The function once the label is split; int(round_num) is evaluated on every
\* path through it and raises ValueError for a non-numeric round.
get_2026_plus_pick_value_parts(projections, pick_name, year, round_text, origin_owner, trade_dt, df_values) ==
    IF ~IsInt(round_text) THEN Raise("ValueError")
    ELSE OrElse(
           OrElse(IF StrIn(Lit.Y2026, pick_name) /\ Truthy(origin_owner)
                  THEN ProjectionBlock(projections, origin_owner, ParseInt(round_text),
                                       TargetWeek(trade_dt))
                  ELSE Pass,
                  IF (StrIn(Lit.Y2027, pick_name) \/ StrIn(Lit.Y2028, pick_name))
                     /\ Truthy(origin_owner)
                  THEN ProjectionBlock(projections, origin_owner, ParseInt(round_text), -1)
                  ELSE Pass),
           GenericFallback(df_values, year, round_text))

get_2026_plus_pick_value_split(projections, pick_name, parts, origin_owner, trade_date, df_values) ==
    IF ~(Len(parts) >= 3 /\ parts[2] = Lit.Round)
    THEN Ret(0, Src("Parse error", <<>>), <<>>)
    ELSE get_2026_plus_pick_value_parts(projections, pick_name, parts[1], parts[3],
                                        origin_owner, ToOrdinal(trade_date), df_values)

get_2026_plus_pick_value(projections, pick_name, origin_owner, trade_date, df_values) ==
    get_2026_plus_pick_value_split(projections, pick_name, SplitWords(pick_name),
                                   origin_owner, trade_date, df_values)

-----------------------------------------------------------------------------
(* scripts/update_weekly_projections.py, run when stage3_cache_values.py is *)
(* imported: it rewrites the projections file before the file is loaded      *)

\* TIER_VALUES: per tier, the values of the 2nd, 3rd and 4th round.
TIER_VALUES ==
    [Early |-> <<622, 106, 29>>, Mid |-> <<330, 65, 20>>, Late |-> <<183, 42, 15>>]

\* TIER_VALUES.get(tier, {}).get(round_name, 0)
TierValueGet(tier, round_name) ==
    IF tier \in DOMAIN TIER_VALUES /\ \E r \in 2..4 : ROUND_ORDINALS[r] = round_name
    THEN TIER_VALUES[tier][(CHOOSE r \in 2..4 : ROUND_ORDINALS[r] = round_name) - 1]
    ELSE 0

\* get_current_week: the week of datetime.now(), from 2 to 18; the script has its
\* own season start, 2025-09-03.
get_current_week(now) ==
    IF WeekOfDays(now - ToOrdinal(<<2025, 9, 3>>)) < 18
    THEN WeekOfDays(now - ToOrdinal(<<2025, 9, 3>>)) ELSE 18

\* get_missing_columns: for week in 2..current_week, for round in 2nd, 3rd, 4th,
\* the column names the file does not have; k counts the pairs from 0.
RECURSIVE MissingFrom(_, _, _)
MissingFrom(columns, current_week, k) ==
    IF k >= 3 * (current_week - 1) THEN <<>>
    ELSE (IF HasColumn(columns, WeekColumnName(2 + (k \div 3), ROUND_ORDINALS[2 + (k % 3)]))
          THEN <<>>
          ELSE <<WeekColumnName(2 + (k \div 3), ROUND_ORDINALS[2 + (k % 3)])>>)
         \o MissingFrom(columns, current_week, k + 1)
get_missing_columns(columns, current_week) == MissingFrom(columns, current_week, 0)

\* col_name.split('_')[2] of a name Week<w>_2026_<round>
RoundOfColumn(col_name) ==
    SubSeq(col_name, Find(Lit.Sep2026, col_name) + Len(Lit.Sep2026), Len(col_name))

\* add_missing_columns: each new column holds the tier value of the row's Tier.
AddCells(row, missing) ==
    [Team |-> row.Team, Tier |-> row.Tier,
     cells |-> [c \in DOMAIN row.cells \cup {missing[i] : i \in 1..Len(missing)} |->
                  IF c \in DOMAIN row.cells THEN row.cells[c]
                  ELSE TierValueGet(row.Tier, RoundOfColumn(c))]]
add_missing_columns(df, missing) ==
    [columns |-> df.columns \o missing,
     rows |-> [i \in 1..Len(df.rows) |-> AddCells(df.rows[i], missing)]]

\* update_weekly_projections: the file as the script leaves it.
UpdatedWith(df, missing) ==
    IF missing = <<>> THEN df ELSE add_missing_columns(df, missing)
update_weekly_projections(df, current_week) ==
    UpdatedWith(df, get_missing_columns(df.columns, current_week))

\* The projections stage3_cache_values.py loads: the file as updated at the
\* date of the run, or as it was when the update raised and was logged.
LoadProjections(file, now, update_ok) ==
    IF update_ok THEN update_weekly_projections(file, get_current_week(ToOrdinal(now)))
    ELSE file
-----------------------------------------------------------------------------
(* cache_asset_values: one asset row *)

FaabAmountText(asset_name) == Remove(Remove(asset_name, Lit.Dollar), Lit.FAAB)

\* The loop over the deltas running one day further.
FirstDelta_wide(commit_cache, trade_dt, sign, days) ==
    MinOrZero({delta \in 1..(days + 1) :
                  FromOrdinal(trade_dt + sign * delta) \in DOMAIN commit_cache})

\* for delta in range(1, days + 1): the first delta whose date has a commit, 0 if none.
FirstDelta(commit_cache, trade_dt, sign, days) ==
    MinOrZero({delta \in 1..days : FromOrdinal(trade_dt + sign * delta) \in DOMAIN commit_cache})

\* The two loops in the other order: forwards first.
NearestCommit_later_first(commit_cache, trade_dt, back, forward) ==
    IF forward # 0 THEN commit_cache[FromOrdinal(trade_dt + forward)]
    ELSE IF back # 0 THEN commit_cache[FromOrdinal(trade_dt - back)]
    ELSE ""

\* The two loops, given the first hit of each (0: no hit): backwards first.
NearestCommit(commit_cache, trade_dt, back, forward) ==
    IF back # 0 THEN commit_cache[FromOrdinal(trade_dt - back)]
    ELSE IF forward # 0 THEN commit_cache[FromOrdinal(trade_dt + forward)]
    ELSE ""

\* The commit search of cache_asset_values: the commit of the trade date, else of
\* the nearest earlier date within the search days, else of the nearest later one;
\* "" (None) when there is none.
FindCommit(commit_cache, trade_date, search_days) ==
    IF trade_date \in DOMAIN commit_cache THEN commit_cache[trade_date]
    ELSE NearestCommit(commit_cache, ToOrdinal(trade_date),
                       FirstDelta(commit_cache, ToOrdinal(trade_date), -1, search_days),
                       FirstDelta(commit_cache, ToOrdinal(trade_date), 1, search_days))

\* The record appended to cached_values.
Record(row, value_at_trade, value_current, source_at_trade, source_current, metadata) ==
    [asset_name |-> row.asset_name, asset_type |-> row.asset_type,
     trade_date |-> row.trade_date, trade_id |-> row.trade_id,
     trade_type |-> row.trade_type, receiving_team |-> row.receiving_team,
     giving_team |-> row.giving_team, origin_owner |-> row.origin_owner,
     value_at_trade |-> value_at_trade, value_current |-> value_current,
     value_source_at_trade |-> source_at_trade,
     value_source_current |-> source_current, metadata |-> metadata]

\* What one iteration yields: the record appended, or the exception raised.
Emitted(rec) == [exc |-> "", rec |-> <<rec>>]
Raised(exc) == [exc |-> exc, rec |-> <<>>]

\* meta_current or meta_at_trade or ''
MetaOr(meta_current, meta_at_trade) ==
    IF meta_current # <<>> THEN meta_current ELSE meta_at_trade

\* The FAAB record with no current value.
FaabRecord_no_current(row, amount, value) ==
    Record(row, value, 0, Src("FAAB", <<>>), Src("FAAB", <<>>),
           <<Item("faab", Lit.Dollar \o FormatInt(amount))>>)

\* The FAAB branch; int() raises ValueError on a non-numeric amount.
FaabRecord(row, amount, value) ==
    Record(row, value, value, Src("FAAB", <<>>), Src("FAAB", <<>>),
           <<Item("faab", Lit.Dollar \o FormatInt(amount))>>)
FaabOfText(row, text) ==
    IF ~IsInt(text) THEN Raised("ValueError")
    ELSE Emitted(FaabRecord(row, ParseInt(text), ParseInt(text) * FAAB_VALUE_PER_DOLLAR))
ValueFaab(row) == FaabOfText(row, FaabAmountText(row.asset_name))

\* The record of a pick or player from its two valuations (at trade first).
RecordOf(row, at, cur) ==
    IF at.exc # "" THEN Raised(at.exc)
    ELSE IF cur.exc # "" THEN Raised(cur.exc)
    ELSE Emitted(Record(row, at.value, cur.value, at.source, cur.source,
                        MetaOr(cur.meta, at.meta)))

\* The pick branch valuing a current-season pick at trade in the current table.
ValuePick_current_only(row, lineage, projections, df_current, df_for_at_trade) ==
    IF StrIn(Lit.Round2025, row.asset_name) /\ Truthy(row.origin_owner)
    THEN RecordOf(row,
             get_2025_pick_value(lineage, row.asset_name, row.origin_owner,
                                 row.trade_date, df_current, FALSE),
             get_2025_pick_value(lineage, row.asset_name, row.origin_owner,
                                 row.trade_date, df_current, TRUE))
    ELSE RecordOf(row, Ret(0, Src("Unknown pick", <<>>), <<>>),
                       Ret(0, Src("Unknown pick", <<>>), <<>>))

\* The pick branch valuing a current-season pick now in the trade-time table.
ValuePick_current_from_history(row, lineage, projections, df_current, df_for_at_trade) ==
    IF StrIn(Lit.Round2025, row.asset_name) /\ Truthy(row.origin_owner)
    THEN RecordOf(row,
             get_2025_pick_value(lineage, row.asset_name, row.origin_owner,
                                 row.trade_date, df_for_at_trade, FALSE),
             get_2025_pick_value(lineage, row.asset_name, row.origin_owner,
                                 row.trade_date, df_for_at_trade, TRUE))
    ELSE RecordOf(row, Ret(0, Src("Unknown pick", <<>>), <<>>),
                       Ret(0, Src("Unknown pick", <<>>), <<>>))

\* The pick branch: df_for_at_trade is the historical table when one was loaded,
\* else the current table.
\* The value at trade of a future pick looked up in the value table alone.
ValuePick_future_at_trade_from_table(row, lineage, projections, df_current, df_for_at_trade) ==
    IF StrIn(Lit.Round2025, row.asset_name) /\ Truthy(row.origin_owner)
    THEN RecordOf(row,
             get_2025_pick_value(lineage, row.asset_name, row.origin_owner,
                                 row.trade_date, df_for_at_trade, FALSE),
             get_2025_pick_value(lineage, row.asset_name, row.origin_owner,
                                 row.trade_date, df_current, TRUE))
    ELSE IF (StrIn(Lit.Y2026, row.asset_name) \/ StrIn(Lit.Y2027, row.asset_name)
             \/ StrIn(Lit.Y2028, row.asset_name)) /\ Truthy(row.origin_owner)
    THEN RecordOf(row,
             get_2026_plus_pick_value([columns |-> <<>>, rows |-> <<>>], row.asset_name,
                                      row.origin_owner, row.trade_date, df_for_at_trade),
             get_2026_plus_pick_value(projections, row.asset_name, row.origin_owner,
                                      row.trade_date, df_current))
    ELSE RecordOf(row, Ret(0, Src("Unknown pick", <<>>), <<>>),
                       Ret(0, Src("Unknown pick", <<>>), <<>>))

ValuePick(row, lineage, projections, df_current, df_for_at_trade) ==
    IF StrIn(Lit.Round2025, row.asset_name) /\ Truthy(row.origin_owner)
    THEN RecordOf(row,
             get_2025_pick_value(lineage, row.asset_name, row.origin_owner,
                                 row.trade_date, df_for_at_trade, FALSE),
             get_2025_pick_value(lineage, row.asset_name, row.origin_owner,
                                 row.trade_date, df_current, TRUE))
    ELSE IF (StrIn(Lit.Y2026, row.asset_name) \/ StrIn(Lit.Y2027, row.asset_name)
             \/ StrIn(Lit.Y2028, row.asset_name)) /\ Truthy(row.origin_owner)
    THEN RecordOf(row,
             get_2026_plus_pick_value(projections, row.asset_name, row.origin_owner,
                                      row.trade_date, df_for_at_trade),
             get_2026_plus_pick_value(projections, row.asset_name, row.origin_owner,
                                      row.trade_date, df_current))
    ELSE RecordOf(row, Ret(0, Src("Unknown pick", <<>>), <<>>),
                       Ret(0, Src("Unknown pick", <<>>), <<>>))

\* The player branch: without a historical table the value at trade is 0.
ValuePlayer(row, df_current, df_hist, has_hist, commit_sha) ==
    RecordOf(row,
        IF has_hist
        THEN FirstMatch(Matches(df_hist, row.asset_name), Src("Git:", <<commit_sha>>), <<>>,
                        Ret(0, Src("Not found", <<>>), <<>>))
        ELSE Ret(0, Src("No Git commit", <<>>), <<>>),
        FirstMatch(Matches(df_current, row.asset_name), Src("DynastyProcess", <<>>), <<>>,
                   Ret(0, Src("Not found", <<>>), <<>>)))

\* One iteration of the loop for a row that is not FAAB, given the historical
\* table the commit search and fetch produced.
ValueAsset(row, lineage, projections, df_current, df_hist, has_hist, commit_sha) ==
    IF row.asset_type = "pick"
    THEN ValuePick(row, lineage, projections, df_current,
                   IF has_hist THEN df_hist ELSE df_current)
    ELSE ValuePlayer(row, df_current, df_hist, has_hist, commit_sha)

-----------------------------------------------------------------------------
(* The inputs the run reads: bounded families *)

\* Longest batch of asset rows drawn from NarrowRows.
MaxRows == 2

ValueRow(player, value_2qb) == [player |-> player, value_2qb |-> value_2qb]

\* A current table: veterans, some drafted rookies, generic future picks.
CurrentA ==
    <<ValueRow(JoshAllen, 9000), ValueRow(KennethWalkerIII, 4100),
      ValueRow(TyreekHill, 1200),
      ValueRow(RookieName(1, 1), 6000), ValueRow(RookieName(1, 5), 3500),
      ValueRow(RookieName(1, 9), 1100), ValueRow(RookieName(2, 1), 1500),
      ValueRow(GenericPickName(Lit.Y2026, ROUND_ORDINALS[1]), 2500),
      ValueRow(GenericPickName(Lit.Y2026, ROUND_ORDINALS[2]), 900),
      ValueRow(GenericPickName(Lit.Y2027, ROUND_ORDINALS[1]), 2400)>>
\* A current table that still lists one 2025 pick slot and misses most rookies.
CurrentB ==
    <<ValueRow(ExactPickName(1, 5), 2600), ValueRow(JoshAllen, 9100),
      ValueRow(RookieName(1, 1), 6100), ValueRow(DXJXMoore, 300),
      ValueRow(DJMoore, 4000)>>
CurrentTables == {CurrentA, CurrentB}

\* A snapshot taken before the draft: pick slots, rookies, veterans.
HistPre ==
    <<ValueRow(ExactPickName(1, 1), 5800), ValueRow(ExactPickName(2, 1), 1400),
      ValueRow(JoshAllen, 8800), ValueRow(RookieName(1, 1), 5000),
      ValueRow(GenericPickName(Lit.Y2026, ROUND_ORDINALS[1]), 2600),
      ValueRow(GenericPickName(Lit.Y2026, ROUND_ORDINALS[2]), 950)>>
\* A snapshot taken after the draft: no pick slots.
HistPost ==
    <<ValueRow(JoshAllen, 8700), ValueRow(KennethWalkerIII, 4000),
      ValueRow(RookieName(1, 1), 5500), ValueRow(RookieName(1, 5), 3500),
      ValueRow(GenericPickName(Lit.Y2026, ROUND_ORDINALS[2]), 800)>>

D_PRE == <<2025, 5, 4>>
D_DRAFT == <<2025, 5, 5>>
D_SEASON == <<2025, 10, 24>>
TradeDates == {D_PRE, D_DRAFT, D_SEASON}

\* The values repository: its commits, newest first, and the table of each.
Commit(date, sha) == [date |-> date, sha |-> sha]
RepoTables ==
    [sha \in {"c0501aa", "c0507bb", "c0505cc", "c0505dd", "c1026ee"} |->
        IF sha \in {"c0501aa", "c0505dd"} THEN HistPre ELSE HistPost]
\* Snapshots a few days either side of the draft.
RepoA == <<Commit(<<2025, 5, 7>>, "c0507bb"), Commit(<<2025, 5, 1>>, "c0501aa")>>
\* Two commits on the draft day, one after the trade in season.
RepoB == <<Commit(<<2025, 10, 26>>, "c1026ee"), Commit(<<2025, 5, 5>>, "c0505cc"),
           Commit(<<2025, 5, 5>>, "c0505dd")>>
Repos == {RepoA, RepoB}

\* Weekly projections.
ProjColumn(week, round_num) == WeekColumnName(week, ROUND_ORDINALS[round_num])
ProjCell(week1, week2, offset) ==
    IF week1 >= 0 THEN 3000 + 10 * week1 + offset ELSE 600 + 10 * week2 + offset
ProjRow(team, tier, columns, offset) ==
    [Team |-> team, Tier |-> tier,
     cells |-> [c \in {columns[i] : i \in 1..Len(columns)} |->
                  ProjCell(MatchWeekColumn(c, ROUND_ORDINALS[1]),
                           MatchWeekColumn(c, ROUND_ORDINALS[2]), offset)]]
ProjHeader == <<  <<"T","e","a","m">>, <<"T","i","e","r">>  >>
ColumnsA == <<ProjColumn(2, 1), ProjColumn(8, 1), ProjColumn(7, 2), ProjColumn(12, 2)>>
ProjectionsA ==
    [columns |-> ProjHeader \o ColumnsA,
     rows |-> <<ProjRow("wkerwin", "Early", ColumnsA, 1),
                ProjRow("tylerpilgrim", "Late", ColumnsA, 2)>>]
\* Second-round columns only, one team only.
ColumnsB == <<ProjColumn(7, 2), ProjColumn(12, 2)>>
ProjectionsB ==
    [columns |-> ProjHeader \o ColumnsB,
     rows |-> <<ProjRow("tylerpilgrim", "Late", ColumnsB, 2)>>]
ProjectionFiles == {ProjectionsA, ProjectionsB}

\* The days a run takes place on.
RunDates == {<<2025, 10, 24>>, <<2025, 11, 7>>}
\* A projections file, the day of the run and whether the update of the file at
\* import succeeds.
ProjectionLoad(file, now, update_ok) == [file |-> file, now |-> now, update_ok |-> update_ok]
ProjectionLoads ==
    {ProjectionLoad(ProjectionsA, <<2025, 10, 24>>, TRUE),
     ProjectionLoad(ProjectionsB, <<2025, 11, 7>>, TRUE),
     ProjectionLoad(ProjectionsB, <<2025, 10, 24>>, FALSE)}

\* max_zero_value_pct as a fraction <<numerator, denominator>>.
ZeroThresholds == {<<1, 10>>, <<1, 2>>}

AssetRow(asset_name, asset_type, trade_date, origin_owner) ==
    [asset_name |-> asset_name, asset_type |-> asset_type, trade_date |-> trade_date,
     trade_id |-> "t1", trade_type |-> "2-team",
     receiving_team |-> "wkerwin", giving_team |-> "jakeduf",
     origin_owner |-> origin_owner]

\* The dollar amounts of the FAAB rows.
FaabAmounts == {0, 50, 100}

\* Rows valued one per batch: every origin of the current-season picks at every
\* trade date, future picks, players and FAAB.
WideRows ==
    {AssetRow(PickLabel(2025, 1), "pick", d, o) :
        d \in TradeDates, o \in Owners \cup {"Roster13"}}
    \cup {AssetRow(PickLabel(2025, 2), "pick", d, o) :
        d \in TradeDates, o \in {"tylerpilgrim", "wkerwin", "Roster13"}}
    \cup {AssetRow(PickLabel(y, r), "pick", d, o) :
        y \in {2026, 2027, 2029}, r \in {1, 2, 6}, d \in {D_PRE, D_SEASON},
        o \in {"wkerwin", "tylerpilgrim", "gnewman4"}}
    \cup {AssetRow(PickLabelNoRound(y), "pick", d, "wkerwin") :
        y \in {2025, 2026, 2027, 2029}, d \in {D_PRE, D_SEASON}}
    \cup {AssetRow(n, "player", d, NoOwner) :
        n \in {JoshAllen, KennethWalker, TyreekHill, UnlistedPlayer, DJMoore},
        d \in {D_PRE, D_SEASON}}
    \cup {AssetRow(FaabLabel(a), "faab", d, NoOwner) : a \in FaabAmounts, d \in TradeDates}

\* Rows combined into longer batches.
NarrowRows ==
    {AssetRow(JoshAllen, "player", D_SEASON, NoOwner),
     AssetRow(UnlistedPlayer, "player", D_PRE, NoOwner),
     AssetRow(FaabLabel(50), "faab", D_DRAFT, NoOwner)}

\* The sequences over S of length n.
RECURSIVE SeqsOfLen(_, _)
SeqsOfLen(S, n) ==
    IF n = 0 THEN {<<>>}
    ELSE {Append(q, x) : q \in SeqsOfLen(S, n - 1), x \in S}

\* asset_transactions.csv as Stage 2 may leave it (never empty: Stage 2 validates).
Batches ==
    {<<row>> : row \in WideRows}
    \cup UNION {SeqsOfLen(NarrowRows, n) : n \in 2..MaxRows}

-----------------------------------------------------------------------------
(* State *)

VARIABLES
    main_pc,            \* update_dashboard.main: the step it is at
    dry_run,            \* args.dry_run
    asset_transactions, \* pipeline/asset_transactions.csv (Stage 2's output)
    output_file,        \* pipeline/asset_values_cache.csv, <<>> while not written
    output_written,     \* the Stage 3 process of this execution wrote output_file
    backup_written,     \* ... and backed it up
    s3,                 \* the Stage 3 process: the step it is at
    s3_error,           \* the exception that ended it, "" if none
    PICK_LINEAGE,       \* module-level dict of stage3_cache_values.py
    PICK_PROJECTIONS,   \* module-level DataFrame
    max_zero_value_pct, \* config.validation.max_zero_value_pct
    df_assets,          \* the asset rows of the run
    df_current,         \* the current value table
    commit_cache,       \* date -> commit sha
    git_df_cache,       \* commit sha -> loaded table
    idx,                \* the row the loop is at (from 1)
    cached_values,      \* the records emitted so far
    zero_value_count,
    row_log,            \* per processed row: the commit found, whether its table was
                        \* loaded, whether it was fetched (history of the run)
    later_ran,          \* the downstream steps that ran after Stage 3
    args,               \* the arguments of a function applied on its own
    returned,           \* ... and what it returned
    teams,              \* TeamResolver.teams: roster id -> row of the mapping
    mapping_file        \* the team identity mapping CSV as last saved

vars == <<main_pc, dry_run, asset_transactions, output_file, output_written,
          backup_written, s3, s3_error, PICK_LINEAGE, PICK_PROJECTIONS,
          max_zero_value_pct, df_assets, df_current, commit_cache, git_df_cache, idx,
          cached_values, zero_value_count, row_log, later_ran, args, returned,
          teams, mapping_file>>

fileVars == <<asset_transactions, output_file, output_written, backup_written>>
memVars == <<PICK_LINEAGE, PICK_PROJECTIONS, max_zero_value_pct, df_assets, df_current,
             commit_cache, git_df_cache, idx, cached_values, zero_value_count, row_log>>
objVars == <<teams, mapping_file>>
callVars == <<args, returned, objVars>>

\* The memory of a Stage 3 process that is not running.
MemOff ==
    /\ PICK_LINEAGE = <<>>
    /\ PICK_PROJECTIONS = [columns |-> <<>>, rows |-> <<>>]
    /\ max_zero_value_pct = <<1, 10>>
    /\ df_assets = <<>>
    /\ df_current = <<>>
    /\ commit_cache = <<>>
    /\ git_df_cache = <<>>
    /\ idx = 1
    /\ cached_values = <<>>
    /\ zero_value_count = 0
    /\ row_log = <<>>

\* update_dashboard.py has not started.
MainOff ==
    /\ main_pc = "start"
    /\ dry_run = FALSE
    /\ asset_transactions = <<>>
    /\ output_file = <<>>
    /\ output_written = FALSE
    /\ backup_written = FALSE
    /\ s3 = "off"
    /\ s3_error = ""
    /\ later_ran = {}
    /\ teams = <<>>
    /\ mapping_file = <<>>
    /\ MemOff

Init ==
    /\ MainOff
    /\ args = <<>>
    /\ returned = <<>>

-----------------------------------------------------------------------------
(* update_dashboard.py: main, up to Stage 3 *)

\* argparse: --dry-run.  (--skip-git is read only by the deploy step, which draws it.)
ParseArgs ==
    /\ main_pc = "start"
    /\ dry_run' \in BOOLEAN
    /\ main_pc' = "stage1"
    /\ UNCHANGED <<fileVars, s3, s3_error, memVars, later_ran, callVars>>

\* run_command for Stage 1: the command succeeds or fails; a dry run runs nothing.
RunStage1 ==
    /\ main_pc = "stage1"
    /\ \E ok \in (IF dry_run THEN {TRUE} ELSE BOOLEAN) :
          main_pc' = IF ok THEN "stage2" ELSE "exit1"
    /\ UNCHANGED <<dry_run, fileVars, s3, s3_error, memVars, later_ran, callVars>>

\* run_command for Stage 2: on success asset_transactions.csv holds a batch.
RunStage2 ==
    /\ main_pc = "stage2"
    /\ ~dry_run
    /\ \E batch \in Batches :
          /\ asset_transactions' = batch
          /\ main_pc' = "stage3"
    /\ UNCHANGED <<dry_run, output_file, output_written, backup_written, s3, s3_error,
                   memVars, later_ran, callVars>>

RunStage2Fails ==
    /\ main_pc = "stage2"
    /\ ~dry_run
    /\ main_pc' = "exit1"
    /\ UNCHANGED <<dry_run, fileVars, s3, s3_error, memVars, later_ran, callVars>>

\* A dry run prints the commands of stages 2 and 3 and runs neither.
DryRunStages ==
    /\ main_pc \in {"stage2", "stage3"}
    /\ dry_run
    /\ main_pc' = IF main_pc = "stage2" THEN "stage3" ELSE "stage4"
    /\ UNCHANGED <<dry_run, fileVars, s3, s3_error, memVars, later_ran, callVars>>

-----------------------------------------------------------------------------
(* stage3_cache_values.py: the Stage 3 process *)

\* Import of the module and the start of main: config is read, the projections
\* file is updated and read, the draft results are read, the lineage is built,
\* prerequisites hold, the asset rows are read from asset_transactions.csv.
S3Start ==
    /\ main_pc = "stage3" /\ ~dry_run /\ s3 = "off"
    /\ \E draft \in Drafts, load \in ProjectionLoads, pct \in ZeroThresholds :
          /\ PICK_LINEAGE' = BuildLineage(draft)
          /\ PICK_PROJECTIONS' = LoadProjections(load.file, load.now, load.update_ok)
          /\ max_zero_value_pct' = pct
    /\ df_assets' = asset_transactions
    /\ s3' = "load_current"
    /\ UNCHANGED <<main_pc, dry_run, fileVars, s3_error, df_current, commit_cache,
                   git_df_cache, idx, cached_values, zero_value_count, row_log, later_ran,
                   callVars>>

\* A data file is missing: FileNotFoundError at import becomes ValidationError.
S3StartFails ==
    /\ main_pc = "stage3" /\ ~dry_run /\ s3 = "off"
    /\ s3' = "failed"
    /\ s3_error' = "ValidationError:missing file"
    /\ UNCHANGED <<main_pc, dry_run, fileVars, memVars, later_ran, callVars>>

\* cache_asset_values: the current table is read.
S3LoadCurrent ==
    /\ s3 = "load_current"
    /\ \E table \in CurrentTables : df_current' = table
    /\ s3' = "fetch_commits"
    /\ UNCHANGED <<main_pc, dry_run, fileVars, s3_error, PICK_LINEAGE, PICK_PROJECTIONS,
                   max_zero_value_pct, df_assets, commit_cache, git_df_cache, idx,
                   cached_values, zero_value_count, row_log, later_ran, callVars>>

\* The failed load logged and the run going on with an empty current table.
S3LoadCurrentFails_goes_on ==
    /\ s3 = "load_current"
    /\ s3' = "fetch_commits"
    /\ s3_error' = "APIError"
    /\ UNCHANGED <<main_pc, dry_run, fileVars, memVars, later_ran, callVars>>

\* The current table cannot be read (or is empty): APIError, fatal.
S3LoadCurrentFails ==
    /\ s3 = "load_current"
    /\ s3' = "failed"
    /\ s3_error' = "APIError"
    /\ UNCHANGED <<main_pc, dry_run, fileVars, memVars, later_ran, callVars>>

\* min of the trade dates of the batch, as a day ordinal.
EarliestDate(assets) ==
    CHOOSE n \in {ToOrdinal(assets[i].trade_date) : i \in 1..Len(assets)} :
        \A i \in 1..Len(assets) : n <= ToOrdinal(assets[i].trade_date)

\* {c date: c sha for c in commits}: of two commits of one date the later in the
\* list stays.
LastOfDate(commits, date) ==
    CHOOSE i \in 1..Len(commits) :
        /\ commits[i].date = date
        /\ \A j \in 1..Len(commits) : commits[j].date = date => j <= i
CommitMap(commits) ==
    [date \in {commits[i].date : i \in 1..Len(commits)} |->
        commits[LastOfDate(commits, date)].sha]

\* get_all_commits_since: the commits of the repository dated since_date or later;
\* the empty dict when the request fails or returns nothing.
get_all_commits_since(repo, since_date) ==
    CommitMap(SelectSeq(repo, LAMBDA c : ToOrdinal(c.date) >= since_date))

S3FetchCommits ==
    /\ s3 = "fetch_commits"
    /\ \E repo \in Repos \cup {<<>>} :
          commit_cache' = get_all_commits_since(
                              repo, EarliestDate(df_assets) - GIT_COMMIT_SEARCH_DAYS)
    /\ s3' = "rows"
    /\ UNCHANGED <<main_pc, dry_run, fileVars, s3_error, PICK_LINEAGE, PICK_PROJECTIONS,
                   max_zero_value_pct, df_assets, df_current, git_df_cache, idx,
                   cached_values, zero_value_count, row_log, later_ran, callVars>>

\* get_values_from_commit: the table of a commit, from the cache or fetched.
CachedTable(cache, commit_sha) ==
    IF commit_sha \in DOMAIN cache THEN cache[commit_sha] ELSE RepoTables[commit_sha]
\* The fetched table returned without being kept.
CachePut_not_kept(cache, commit_sha, table) == cache

CachePut(cache, commit_sha, table) ==
    [k \in DOMAIN cache \cup {commit_sha} |-> IF k = commit_sha THEN table ELSE cache[k]]

\* The commit the search finds for a row; FAAB rows are emitted before the search.
CommitFor(row) ==
    IF row.asset_type = "faab" THEN ""
    ELSE FindCommit(commit_cache, row.trade_date, GIT_COMMIT_SEARCH_DAYS)

\* What the iteration yields for a row.
RowResult(row, commit_sha, has_hist) ==
    IF row.asset_type = "faab" THEN ValueFaab(row)
    ELSE ValueAsset(row, PICK_LINEAGE, PICK_PROJECTIONS, df_current,
                    IF has_hist THEN CachedTable(git_df_cache, commit_sha) ELSE <<>>,
                    has_hist, commit_sha)

\* The end of an iteration putting the record in front of the earlier ones.
EmitRow_prepend(row, commit_sha, fetched, has_hist, res) ==
    /\ git_df_cache' = IF fetched /\ has_hist
                       THEN CachePut(git_df_cache, commit_sha, RepoTables[commit_sha])
                       ELSE git_df_cache
    /\ row_log' = Append(row_log, [commit_sha |-> commit_sha, has_hist |-> has_hist,
                                   fetched |-> fetched])
    /\ IF res.exc # ""
       THEN /\ s3' = "failed"
            /\ s3_error' = "Exception:" \o res.exc
            /\ UNCHANGED <<idx, cached_values, zero_value_count>>
       ELSE /\ cached_values' = res.rec \o cached_values
            /\ zero_value_count' =
                  IF row.asset_type # "faab" /\ res.rec[1].value_at_trade = 0
                  THEN zero_value_count + 1 ELSE zero_value_count
            /\ idx' = idx + 1
            /\ UNCHANGED <<s3, s3_error>>

\* The end of an iteration: the record is appended and a zero value at trade is
\* counted (not for FAAB, which continues before the count); an exception ends
\* the process.
EmitRow(row, commit_sha, fetched, has_hist, res) ==
    /\ git_df_cache' = IF fetched /\ has_hist
                       THEN CachePut(git_df_cache, commit_sha, RepoTables[commit_sha])
                       ELSE git_df_cache
    /\ row_log' = Append(row_log, [commit_sha |-> commit_sha, has_hist |-> has_hist,
                                   fetched |-> fetched])
    /\ IF res.exc # ""
       THEN /\ s3' = "failed"
            /\ s3_error' = "Exception:" \o res.exc
            /\ UNCHANGED <<idx, cached_values, zero_value_count>>
       ELSE /\ cached_values' = cached_values \o res.rec
            /\ zero_value_count' =
                  IF row.asset_type # "faab" /\ res.rec[1].value_at_trade = 0
                  THEN zero_value_count + 1 ELSE zero_value_count
            /\ idx' = idx + 1
            /\ UNCHANGED <<s3, s3_error>>

\* The iteration once the commit is known: its table is taken from the cache, or
\* fetched, and the fetch succeeds or fails.
ProcessRow(row, commit_sha, fetched) ==
    \E fetch_ok \in (IF fetched THEN BOOLEAN ELSE {TRUE}) :
        EmitRow(row, commit_sha, fetched, commit_sha # "" /\ fetch_ok,
                RowResult(row, commit_sha, commit_sha # "" /\ fetch_ok))

\* One iteration of the loop over the rows.
S3ProcessRow ==
    /\ s3 = "rows" /\ idx <= Len(df_assets)
    /\ ProcessRow(df_assets[idx], CommitFor(df_assets[idx]),
                  /\ CommitFor(df_assets[idx]) # ""
                  /\ CommitFor(df_assets[idx]) \notin DOMAIN git_df_cache)
    /\ UNCHANGED <<main_pc, dry_run, fileVars, PICK_LINEAGE, PICK_PROJECTIONS,
                   max_zero_value_pct, df_assets, df_current, commit_cache, later_ran,
                   callVars>>

\* main: the records are written to asset_values_cache.csv
S3Save ==
    /\ s3 = "rows" /\ idx > Len(df_assets)
    /\ output_file' = cached_values
    /\ output_written' = TRUE
    /\ s3' = "saved"
    /\ UNCHANGED <<main_pc, dry_run, asset_transactions, backup_written, s3_error,
                   memVars, later_ran, callVars>>

\* main: BackupManager.backup_file
S3Backup ==
    /\ s3 = "saved"
    /\ backup_written' = TRUE
    /\ s3' = "backed_up"
    /\ UNCHANGED <<main_pc, dry_run, asset_transactions, output_file, output_written,
                   s3_error, memVars, later_ran, callVars>>

\* StageValidator.validate_stage3_output: the zero count of the file read back.
RECURSIVE CountZero(_)
CountZero(file) ==
    IF file = <<>> THEN 0
    ELSE (IF Head(file).value_at_trade = 0 THEN 1 ELSE 0) + CountZero(Tail(file))

\* The comparison of the validator with the threshold itself failing.
TooManyZeros_inclusive(file, max_zero_pct) ==
    CountZero(file) * max_zero_pct[2] >= max_zero_pct[1] * Len(file)

\* zero_at_trade / len(df) > max_zero_pct, with max_zero_pct = num / den
TooManyZeros(file, max_zero_pct) ==
    CountZero(file) * max_zero_pct[2] > max_zero_pct[1] * Len(file)

validate_stage3_output(file, max_zero_pct) ==
    IF Len(file) = 0 THEN "ValidationError:no cached values"
    ELSE IF TooManyZeros(file, max_zero_pct) THEN "ValidationError:too many zero values"
    ELSE ""

S3Validate ==
    /\ s3 = "backed_up"
    /\ s3' = IF validate_stage3_output(output_file, max_zero_value_pct) = ""
             THEN "ok" ELSE "failed"
    /\ s3_error' = validate_stage3_output(output_file, max_zero_value_pct)
    /\ UNCHANGED <<main_pc, dry_run, fileVars, memVars, later_ran, callVars>>

\* The process ends: exit code 0 after main returns, 1 after an exception;
\* run_command returns, and main goes on or exits.
S3Exit ==
    /\ main_pc = "stage3" /\ s3 \in {"ok", "failed"}
    /\ main_pc' = IF s3 = "ok" THEN "stage4" ELSE "exit1"
    /\ s3' = "exited"
    /\ UNCHANGED <<dry_run, fileVars, s3_error, memVars, later_ran, callVars>>

-----------------------------------------------------------------------------
(* update_dashboard.py: main, after Stage 3 *)

\* An execution starts without a cache file, so check_tyreek_value returns False
\* and the fix step between Stage 3 and Stage 4 is skipped.
NextStep(step) ==
    CASE step = "stage4" -> "stage5"
      [] step = "stage5" -> "stage6"
      [] step = "stage6" -> "stage7"
      [] step = "stage7" -> "verify"
      [] step = "verify" -> "copy"
      [] step = "copy"   -> "deploy"
      [] step = "deploy" -> "done"

\* Stages 4..7 (run_command), the check of the required files, the copy to the
\* dashboard and the deployment: each succeeds, or fails and main exits with 1.
\* A dry run executes no command.  The deployment is skipped with --skip-git.
RunLater ==
    /\ main_pc \in {"stage4", "stage5", "stage6", "stage7", "verify", "copy", "deploy"}
    /\ \E ok \in BOOLEAN, skip_git \in BOOLEAN :
          /\ ok \/ ~dry_run \/ main_pc = "verify"
          /\ skip_git => main_pc = "deploy" /\ ok
          /\ main_pc' = IF ok THEN NextStep(main_pc) ELSE "exit1"
          /\ later_ran' = IF dry_run \/ skip_git THEN later_ran
                          ELSE later_ran \cup {main_pc}
    /\ UNCHANGED <<dry_run, fileVars, s3, s3_error, memVars, callVars>>

Next ==
    \/ ParseArgs
    \/ RunStage1
    \/ RunStage2
    \/ RunStage2Fails
    \/ DryRunStages
    \/ S3Start
    \/ S3StartFails
    \/ S3LoadCurrent
    \/ S3LoadCurrentFails
    \/ S3FetchCommits
    \/ S3ProcessRow
    \/ S3Save
    \/ S3Backup
    \/ S3Validate
    \/ S3Exit
    \/ RunLater

Spec == Init /\ [][Next]_vars

-----------------------------------------------------------------------------
(* The commit search applied on its own to bounded repositories *)

\* Snapshots are drawn up to this many days either side of the trade date.
MaxGap == 8
\* Most snapshots in a drawn repository.
MaxSnapshots == 3

SearchDates == {<<2025, 5, 4>>, <<2025, 3, 3>>}
SearchDays == {3, GIT_COMMIT_SEARCH_DAYS}
SnapshotOffsets == {K \in SUBSET ((0 - MaxGap)..MaxGap) : Cardinality(K) <= MaxSnapshots}

\* The sha of the snapshot taken offset days from the trade date.
ShaAt(offset) == "c" \o ToString(offset + MaxGap)
\* commit_cache of a repository with one snapshot per offset.
CacheOfOffsets(trade_date, K) ==
    [date \in {FromOrdinal(ToOrdinal(trade_date) + k) : k \in K} |->
        ShaAt(ToOrdinal(date) - ToOrdinal(trade_date))]

NotCalled == [called |-> FALSE]

InitSearch ==
    /\ MainOff
    /\ \E d \in SearchDates, K \in SnapshotOffsets, n \in SearchDays :
          args = [trade_date |-> d, offsets |-> K, search_days |-> n,
                  commit_cache |-> CacheOfOffsets(d, K)]
    /\ returned = NotCalled

\* The search of cache_asset_values for one row.
ApplySearch ==
    /\ ~returned.called
    /\ returned' = [called |-> TRUE,
                    commit_sha |-> FindCommit(args.commit_cache, args.trade_date,
                                              args.search_days)]
    /\ UNCHANGED <<main_pc, dry_run, fileVars, s3, s3_error, memVars, later_ran, args, objVars>>

SpecSearch == InitSearch /\ [][ApplySearch]_vars

-----------------------------------------------------------------------------
(* get_best_week_column applied on its own to bounded projection files *)

\* Largest week number of a drawn projection column, and largest target week less one.
MaxWeek == 12
\* Most week columns of the round in a drawn projection file.
MaxColumns == 3

WeekSets == {W \in SUBSET (1..MaxWeek) : Cardinality(W) <= MaxColumns}

\* The columns of a projection file holding the weeks W of the round, latest
\* first, after one column of another round.
RECURSIVE ColumnsOfWeeks(_, _)
ColumnsOfWeeks(W, round_name) ==
    IF W = {} THEN <<>>
    ELSE <<WeekColumnName(CHOOSE w \in W : \A v \in W : v <= w, round_name)>>
         \o ColumnsOfWeeks(W \ {CHOOSE w \in W : \A v \in W : v <= w}, round_name)
ColumnsForRound(W, round_num) ==
    ProjHeader \o <<ProjColumn(5, (round_num % 2) + 1)>>
    \o ColumnsOfWeeks(W, ROUND_ORDINALS[round_num])

InitWeek ==
    /\ MainOff
    /\ \E W \in WeekSets, r \in {1, 2}, t \in 2..(MaxWeek + 1) :
          args = [weeks |-> W, round_name |-> ROUND_ORDINALS[r], target_week |-> t,
                  columns |-> ColumnsForRound(W, r)]
    /\ returned = NotCalled

ApplyBestWeek ==
    /\ ~returned.called
    /\ returned' = [called |-> TRUE,
                    best |-> get_best_week_column(args.columns, args.round_name,
                                                  args.target_week)]
    /\ UNCHANGED <<main_pc, dry_run, fileVars, s3, s3_error, memVars, later_ran, args, objVars>>

SpecWeek == InitWeek /\ [][ApplyBestWeek]_vars


-----------------------------------------------------------------------------
(* Stage 3 run twice on the same files *)

\* One iteration of the loop with every snapshot fetch succeeding.
RowOfRun(row, lineage, projections, current, commit_sha) ==
    IF row.asset_type = "faab" THEN ValueFaab(row)
    ELSE ValueAsset(row, lineage, projections, current,
                    IF commit_sha # "" THEN RepoTables[commit_sha] ELSE <<>>,
                    commit_sha # "", commit_sha)

\* cache_asset_values over the rows: what each iteration yields.
RowsOfRun(assets, lineage, projections, current, commits) ==
    [i \in 1..Len(assets) |->
        RowOfRun(assets[i], lineage, projections, current,
                 IF assets[i].asset_type = "faab" THEN ""
                 ELSE FindCommit(commits, assets[i].trade_date, GIT_COMMIT_SEARCH_DAYS))]

\* A whole Stage 3 process on the files in: the projections file is updated for
\* the day of the run and loaded, the lineage is built, the commits are listed,
\* the rows are valued.
RecordsOfRun(in, now) ==
    RowsOfRun(in.assets, BuildLineage(in.draft),
              LoadProjections(in.projections_file, now, TRUE), in.current,
              get_all_commits_since(in.repo,
                                    EarliestDate(in.assets) - GIT_COMMIT_SEARCH_DAYS))

\* The rows of the batches run twice: those of WideRows and third-round picks.
RerunRows ==
    WideRows \cup {AssetRow(PickLabel(y, 3), "pick", D_SEASON, o) :
                     y \in {2026, 2027}, o \in {"wkerwin", "tylerpilgrim"}}

\* args: the files and tables the runs read; returned: per run, its day and
\* what it yielded.
InitRerun ==
    /\ MainOff
    /\ \E row \in RerunRows, draft \in Drafts, file \in ProjectionFiles,
          current \in CurrentTables, repo \in Repos :
          args = [assets |-> <<row>>, draft |-> draft, projections_file |-> file,
                  current |-> current, repo |-> repo]
    /\ returned = <<>>

\* One run.  The update of the projections file at import stays on disk.
ApplyRun ==
    /\ Len(returned) < 2
    /\ \E now \in RunDates :
          /\ Len(returned) = 1 => ToOrdinal(returned[1].now) <= ToOrdinal(now)
          /\ returned' = Append(returned, [now |-> now, records |-> RecordsOfRun(args, now)])
          /\ args' = [args EXCEPT !.projections_file =
                         LoadProjections(args.projections_file, now, TRUE)]
    /\ UNCHANGED <<main_pc, dry_run, fileVars, s3, s3_error, memVars, later_ran, objVars>>

SpecRerun == InitRerun /\ [][ApplyRun]_vars

-----------------------------------------------------------------------------
(* get_2026_plus_pick_value applied on its own *)

\* The arguments drawn: labels of four years and four rounds, teams with and
\* without a projection row, every modelled value table and loaded projection.
FutureYears == {2026, 2027, 2028, 2029}
FutureRounds == {1, 2, 3, 6}
FutureTeams == {"wkerwin", "tylerpilgrim", "gnewman4", NoOwner}
\* Trade dates before the season, on its first day, at the ends of its second
\* week, in its eighth week and after its eighteenth.
FutureDates == {D_PRE, <<2025, 9, 3>>, <<2025, 9, 16>>, <<2025, 9, 17>>, D_SEASON,
                <<2026, 2, 1>>}

InitFuture ==
    /\ MainOff
    /\ \E y \in FutureYears, r \in FutureRounds, team \in FutureTeams,
          d \in FutureDates, table \in CurrentTables \cup {HistPre, HistPost},
          load \in ProjectionLoads :
          args = [year |-> y, round_num |-> r, pick_name |-> PickLabel(y, r),
                  origin_owner |-> team, trade_date |-> d, df_values |-> table,
                  projections |-> LoadProjections(load.file, load.now, load.update_ok)]
    /\ returned = NotCalled

ApplyFuture ==
    /\ ~returned.called
    /\ returned' = [called |-> TRUE,
                    result |-> get_2026_plus_pick_value(
                                   args.projections, args.pick_name, args.origin_owner,
                                   args.trade_date, args.df_values)]
    /\ UNCHANGED <<main_pc, dry_run, fileVars, s3, s3_error, memVars, later_ran, args, objVars>>

SpecFuture == InitFuture /\ [][ApplyFuture]_vars

-----------------------------------------------------------------------------
(* A pick label built by Stage 2 and parsed by Stage 3 *)

\* str() of a value of the trade record: a number, or None (the empty tuple)
\* when the record lacks the key.
FormatValue(v) == IF v = <<>> THEN <<"N","o","n","e">> ELSE FormatInt(v[1])

\* extract_assets_from_trades, a draft pick of a trade:
\* pick_name = f"{season} Round {round_num}" and
\* origin_owner = roster_to_username.get(original_roster_id, f'Roster{id}').
Stage2PickRow(season, round_num, roster_id) ==
    [asset_name   |-> FormatValue(season) \o <<" ">> \o Lit.Round \o <<" ">>
                        \o FormatValue(round_num),
     origin_owner |-> IF roster_id \in 1..LeagueSize THEN Round1Origins[roster_id]
                      ELSE "Roster" \o ToString(roster_id)]

\* The season and round a valuator has after its parsing statements, or the
\* way they end.
Parsed(season, round_num) == [season |-> season, round_num |-> round_num, exc |-> ""]
ParseFails(exc) == [season |-> <<>>, round_num |-> <<>>, exc |-> exc]

\* get_2025_pick_value: int(pick_name.split('Round')[1].strip()); the season is
\* the one the dispatch matched.
Parse2025(piece) ==
    IF piece = NaN \/ ~IsInt(piece) THEN ParseFails("Parse error")
    ELSE Parsed(SubSeq(Lit.Round2025, 1, 4), <<ParseInt(piece)>>)

\* get_2026_plus_pick_value: parts = pick_name.split(); year = parts[0];
\* round_num = parts[2]; int(round_num).
Parse2026Plus(parts) ==
    IF ~(Len(parts) >= 3 /\ parts[2] = Lit.Round) THEN ParseFails("Parse error")
    ELSE IF ~IsInt(parts[3]) THEN ParseFails("ValueError")
    ELSE Parsed(parts[1], <<ParseInt(parts[3])>>)

\* cache_asset_values: the valuator a pick row is handed to, and what it parses.
ParsePickRow(row) ==
    IF StrIn(Lit.Round2025, row.asset_name) /\ Truthy(row.origin_owner)
    THEN Parse2025(SplitSecond(row.asset_name, Lit.Round))
    ELSE IF (StrIn(Lit.Y2026, row.asset_name) \/ StrIn(Lit.Y2027, row.asset_name)
             \/ StrIn(Lit.Y2028, row.asset_name)) /\ Truthy(row.origin_owner)
    THEN Parse2026Plus(SplitWords(row.asset_name))
    ELSE ParseFails("Unknown pick")

\* The picks of the trade records: seasons of the valuators, rounds 1..12 or
\* none, original rosters in and out of the league's roster map.
LabelSeasons == {<<2025>>, <<2026>>, <<2027>>, <<2028>>}
LabelRounds == {<<>>} \cup {<<r>> : r \in 1..12}
LabelRosters == {1, 13}

InitLabel ==
    /\ MainOff
    /\ \E season \in LabelSeasons, round_num \in LabelRounds, roster_id \in LabelRosters :
          args = [season |-> season, round_num |-> round_num, roster_id |-> roster_id]
    /\ returned = NotCalled

\* Stage 2 builds the row, Stage 3 parses its label.
ApplyLabel ==
    /\ ~returned.called
    /\ returned' = [called |-> TRUE,
                    row    |-> Stage2PickRow(args.season, args.round_num, args.roster_id),
                    parsed |-> ParsePickRow(Stage2PickRow(args.season, args.round_num,
                                                          args.roster_id))]
    /\ UNCHANGED <<main_pc, dry_run, fileVars, s3, s3_error, memVars, later_ran, args, objVars>>

SpecLabel == InitLabel /\ [][ApplyLabel]_vars

-----------------------------------------------------------------------------
(* utils/api_client.py: fetch_with_retry *)

\* What one requests.get of the call meets: a JSON answer, status 404, status
\* 429, a timeout, another status that raise_for_status rejects.
Responses == {"200", "404", "429", "timeout", "500"}

\* The body of fetch_with_retry for one response: what it returns, or the
\* exception it raises.
FetchOnce(response) ==
    CASE response = "429"     -> [value |-> "", exc |-> "RateLimitError"]
      [] response = "404"     -> [value |-> "None", exc |-> ""]
      [] response = "200"     -> [value |-> "json", exc |-> ""]
      [] response = "timeout" -> [value |-> "", exc |-> "TimeoutError"]
      [] OTHER                -> [value |-> "", exc |-> "APIError"]

\* stop_after_attempt(3)
StopAfterAttempt == 3
\* wait_exponential(multiplier=1, min=4, max=10) after the given attempt:
\* multiplier * 2 ** (attempt_number - 1), held between min and max.
WaitExponential(attempt_number) ==
    IF 2 ^ (attempt_number - 1) < 4 THEN 4
    ELSE IF 2 ^ (attempt_number - 1) > 10 THEN 10
    ELSE 2 ^ (attempt_number - 1)

\* args: the responses the requests of the call would meet, in order;
\* returned: the call as it proceeds.
InitRetry ==
    /\ MainOff
    /\ args \in [1..(StopAfterAttempt + 2) -> Responses]
    /\ returned = [pc |-> "attempt", attempt_number |-> 0, outcome |-> FetchOnce("200"),
                   slept |-> <<>>, value |-> "", raised |-> ""]

\* The decorated function is called once more.
RetryAttempt ==
    /\ returned.pc = "attempt"
    /\ returned' = [returned EXCEPT
                      !.attempt_number = @ + 1,
                      !.outcome = FetchOnce(args[returned.attempt_number + 1]),
                      !.pc = "decide"]
    /\ UNCHANGED <<main_pc, dry_run, fileVars, s3, s3_error, memVars, later_ran, args, objVars>>

\* The retry decorator after an attempt: the value is returned; or the stop
\* condition holds and the exception is raised again (reraise=True); or it
\* sleeps and calls again.  Every exception of the body is an APIError, which
\* the retry condition names.
RetryDecide ==
    /\ returned.pc = "decide"
    /\ returned' =
          IF returned.outcome.exc = ""
          THEN [returned EXCEPT !.pc = "done", !.value = returned.outcome.value]
          ELSE IF returned.attempt_number >= StopAfterAttempt
          THEN [returned EXCEPT !.pc = "done", !.raised = returned.outcome.exc]
          ELSE [returned EXCEPT !.pc = "attempt",
                                !.slept = Append(@, WaitExponential(returned.attempt_number))]
    /\ UNCHANGED <<main_pc, dry_run, fileVars, s3, s3_error, memVars, later_ran, args, objVars>>

SpecRetry == InitRetry /\ [][RetryAttempt \/ RetryDecide]_vars

-----------------------------------------------------------------------------
(* The lineage built from draft results *)

\* Draft result files with at most one row per round and slot: the first
\* slots of some rounds, in pick order; round 5 and slot 13 are outside the
\* origin mapping.
MaxSlots == 13
DraftOfRounds(rounds, slots) ==
    SelectSeq([i \in 1..(5 * slots) |-> DraftRow(((i - 1) \div slots) + 1, ((i - 1) % slots) + 1)],
              LAMBDA row : row.Round \in rounds)

InitLineage ==
    /\ MainOff
    /\ \E rounds \in (SUBSET (1..5)) \ {{}}, slots \in 1..MaxSlots :
          args = DraftOfRounds(rounds, slots)
    /\ returned = NotCalled

\* The module-level loop over DRAFT_RESULTS.
ApplyLineage ==
    /\ ~returned.called
    /\ returned' = [called |-> TRUE, lineage |-> BuildLineage(args)]
    /\ UNCHANGED <<main_pc, dry_run, fileVars, s3, s3_error, memVars, later_ran, args, objVars>>

SpecLineage == InitLineage /\ [][ApplyLineage]_vars
-----------------------------------------------------------------------------
(* utils/team_resolver.py: TeamResolver *)

\* s.strip(' |'): blanks and bars removed from both ends.
RECURSIVE LStripBars(_)
LStripBars(s) ==
    IF s # <<>> /\ Head(s) \in {" ", "|"} THEN LStripBars(Tail(s)) ELSE s
RECURSIVE RStripBars(_)
RStripBars(s) ==
    IF s # <<>> /\ s[Len(s)] \in {" ", "|"} THEN RStripBars(SubSeq(s, 1, Len(s) - 1)) ELSE s
StripBars(s) == LStripBars(RStripBars(s))

\* f"{historical} | {name}".strip(' |')
JoinHistory(historical, name) == StripBars(historical \o <<" ", "|", " ">> \o name)

\* historical_team_names after a change of name: the old name, then the new
\* one, each joined unless it is found in the text held before the change
\* ('in' of two strings: the name occurs somewhere in the text).
HistoryWithOld(historical, old_name) ==
    IF old_name # <<>> /\ ~StrIn(old_name, historical)
    THEN JoinHistory(historical, old_name) ELSE historical
HistoryAfter(historical, old_name, new_team_name) ==
    IF ~StrIn(new_team_name, historical)
    THEN JoinHistory(HistoryWithOld(historical, old_name), new_team_name)
    ELSE HistoryWithOld(historical, old_name)

\* The team row after update_team_name changed its name.
Renamed(team, new_team_name) ==
    [team EXCEPT
       !.current_team_name = new_team_name,
       !.historical_team_names =
           HistoryAfter(team.historical_team_names, team.current_team_name, new_team_name)]

\* Team names of the league, and rows of the mapping file as they are kept.
TeamBears == <<"B","e","a","r","s">>
TeamGoldenBears == <<"G","o","l","d","e","n"," ","B","e","a","r","s">>
TeamCubs == <<"C","u","b","s">>
TeamNames == {TeamBears, TeamGoldenBears, TeamCubs}
TeamRow(current, historical) ==
    [current_team_name |-> current, historical_team_names |-> historical]
MappingRows ==
    {TeamRow(TeamBears, TeamBears),
     TeamRow(TeamGoldenBears, TeamGoldenBears),
     TeamRow(TeamCubs, TeamGoldenBears \o <<" ", "|", " ">> \o TeamCubs)}
RosterIds == {1, 2}
UnknownRoster == 999

\* The calls of update_team_name made on one resolver.
MaxCalls == 3

\* TeamResolver(mapping_file): the rows of the file become self.teams.
\* args: the file as loaded; returned: per call, its arguments, self.teams
\* before it and its result.
InitResolver ==
    /\ main_pc = "start" /\ dry_run = FALSE /\ asset_transactions = <<>>
    /\ output_file = <<>> /\ output_written = FALSE /\ backup_written = FALSE
    /\ s3 = "off" /\ s3_error = "" /\ later_ran = {} /\ MemOff
    /\ teams \in [RosterIds -> MappingRows]
    /\ mapping_file = teams
    /\ args = teams
    /\ returned = <<>>

\* The entry of a call in the history of the calls.
Call(roster_id, new_team_name, before, result) ==
    [roster_id |-> roster_id, new_team_name |-> new_team_name, before |-> before,
     result |-> result]

\* TeamResolver.update_team_name(roster_id, new_team_name)
update_team_name(roster_id, new_team_name) ==
    IF roster_id \notin DOMAIN teams
    THEN /\ returned' = Append(returned, Call(roster_id, new_team_name, teams, FALSE))
         /\ UNCHANGED objVars
    ELSE IF teams[roster_id].current_team_name = new_team_name
    THEN /\ returned' = Append(returned, Call(roster_id, new_team_name, teams, TRUE))
         /\ UNCHANGED objVars
    ELSE /\ teams' = [teams EXCEPT ![roster_id] = Renamed(@, new_team_name)]
         /\ mapping_file' = teams'
         /\ returned' = Append(returned, Call(roster_id, new_team_name, teams, TRUE))

UpdateTeamName ==
    /\ Len(returned) < MaxCalls
    /\ \E roster_id \in RosterIds \cup {UnknownRoster}, new_team_name \in TeamNames :
          update_team_name(roster_id, new_team_name)
    /\ UNCHANGED <<main_pc, dry_run, fileVars, s3, s3_error, memVars, later_ran, args>>

SpecResolver == InitResolver /\ [][UpdateTeamName]_vars
-----------------------------------------------------------------------------
(* stage4_final.py: analyze_2team_trades *)

Abs(n) == IF n < 0 THEN -n ELSE n

\* trades[trade_id] as created for the first row of a trade; roster_a and
\* roster_b, None at creation, are set from that row at once.
NewTrade(row) ==
    [trade_id |-> row.trade_id, trade_date |-> row.trade_date,
     roster_a |-> row.receiving_team, roster_b |-> row.giving_team,
     team_a_assets |-> <<>>, team_a_value_then |-> 0, team_a_value_now |-> 0,
     team_b_assets |-> <<>>, team_b_value_then |-> 0, team_b_value_now |-> 0]

\* The row added to side B only when its receiving team is roster_b.
AddToSide_named_sides_only(trade, row) ==
    IF row.receiving_team = trade.roster_a
    THEN [trade EXCEPT !.team_a_assets = Append(@, row.asset_name),
                       !.team_a_value_then = @ + row.value_at_trade,
                       !.team_a_value_now = @ + row.value_current]
    ELSE IF row.receiving_team = trade.roster_b
    THEN [trade EXCEPT !.team_b_assets = Append(@, row.asset_name),
                       !.team_b_value_then = @ + row.value_at_trade,
                       !.team_b_value_now = @ + row.value_current]
    ELSE trade

\* The row added to the side of its receiving team: side A when it is
\* roster_a, otherwise side B.
AddToSide(trade, row) ==
    IF row.receiving_team = trade.roster_a
    THEN [trade EXCEPT !.team_a_assets = Append(@, row.asset_name),
                       !.team_a_value_then = @ + row.value_at_trade,
                       !.team_a_value_now = @ + row.value_current]
    ELSE [trade EXCEPT !.team_b_assets = Append(@, row.asset_name),
                       !.team_b_value_then = @ + row.value_at_trade,
                       !.team_b_value_now = @ + row.value_current]

\* One iteration of the loop over the rows; trades keeps insertion order.
AddRow(trades, row) ==
    IF \E k \in 1..Len(trades) : trades[k].trade_id = row.trade_id
    THEN [k \in 1..Len(trades) |->
             IF trades[k].trade_id = row.trade_id THEN AddToSide(trades[k], row)
             ELSE trades[k]]
    ELSE Append(trades, AddToSide(NewTrade(row), row))

RECURSIVE AggregateTrades(_, _)
AggregateTrades(trades, rows) ==
    IF rows = <<>> THEN trades
    ELSE AggregateTrades(AddRow(trades, Head(rows)), Tail(rows))

\* ' | '.join(assets)
RECURSIVE JoinAssets(_)
JoinAssets(assets) ==
    IF assets = <<>> THEN <<>>
    ELSE IF Len(assets) = 1 THEN assets[1]
    ELSE assets[1] \o <<" ", "|", " ">> \o JoinAssets(Tail(assets))

\* margin_swing of a trade
MarginSwing(t) ==
    IF t.team_a_value_then > t.team_b_value_then
    THEN (t.team_a_value_now - t.team_b_value_now)
           - (t.team_a_value_then - t.team_b_value_then)
    ELSE (t.team_b_value_now - t.team_a_value_now)
           - (t.team_b_value_then - t.team_a_value_then)

\* The result row of a trade.
TradeResult(t, winner_then, winner_now, margin_swing) ==
    [trade_date |-> t.trade_date, transaction_id |-> t.trade_id,
     team_a |-> t.roster_a, team_a_received |-> JoinAssets(t.team_a_assets),
     team_a_value_then |-> t.team_a_value_then, team_a_value_now |-> t.team_a_value_now,
     team_a_value_change |-> t.team_a_value_now - t.team_a_value_then,
     team_b |-> t.roster_b, team_b_received |-> JoinAssets(t.team_b_assets),
     team_b_value_then |-> t.team_b_value_then, team_b_value_now |-> t.team_b_value_now,
     team_b_value_change |-> t.team_b_value_now - t.team_b_value_then,
     winner_at_trade |-> winner_then, winner_current |-> winner_now,
     margin_at_trade |-> Abs(t.team_a_value_then - t.team_b_value_then),
     margin_current |-> Abs(t.team_a_value_now - t.team_b_value_now),
     swing_winner |-> IF margin_swing # 0 THEN winner_now ELSE "Tie",
     swing_margin |-> Abs(margin_swing)]

ResultOf(t) ==
    TradeResult(t,
        IF t.team_a_value_then > t.team_b_value_then THEN t.roster_a ELSE t.roster_b,
        IF t.team_a_value_now > t.team_b_value_now THEN t.roster_a ELSE t.roster_b,
        MarginSwing(t))

\* The result rows in the order of the trades dict.
ResultsOf(trades) == [k \in 1..Len(trades) |-> ResultOf(trades[k])]

\* sort_values('swing_margin', ascending=False): the orders of the rows with
\* swing_margin descending; rows of equal swing_margin come in any order.
SortedBySwing(results) ==
    {[k \in 1..Len(results) |-> results[p[k]]] :
        p \in {q \in [1..Len(results) -> 1..Len(results)] :
                 /\ \A i, j \in 1..Len(results) : q[i] = q[j] => i = j
                 /\ \A i \in 1..(Len(results) - 1) :
                       results[q[i]].swing_margin >= results[q[i + 1]].swing_margin}}

\* analyze_2team_trades(df_cache): the frames it can return.
analyze_2team_trades(df_cache) == SortedBySwing(ResultsOf(AggregateTrades(<<>>, df_cache)))

\* Rows of asset_values_cache.csv of 2-team trades: two trades, each asset
\* received by one of the two teams of its trade or by a roster outside the
\* league's map.
MaxTradeRows == 3
CacheRow(trade_id, sides, receiving_team, asset) ==
    [trade_id |-> trade_id, trade_date |-> D_SEASON,
     receiving_team |-> receiving_team,
     giving_team |-> IF receiving_team = sides[1] THEN sides[2] ELSE sides[1],
     asset_name |-> asset.asset_name,
     value_at_trade |-> asset.value_at_trade, value_current |-> asset.value_current]
ValuedAssets ==
    {[asset_name |-> JoshAllen, value_at_trade |-> 7500, value_current |-> 8000],
     [asset_name |-> PickLabel(2025, 1), value_at_trade |-> 5430, value_current |-> 0]}
TradeTeams == [t1 |-> <<"wkerwin", "tylerpilgrim">>, t2 |-> <<"gnewman4", "wkerwin">>]
CacheRows ==
    {CacheRow(id, TradeTeams[id], team, asset) :
        id \in DOMAIN TradeTeams, team \in {"wkerwin", "tylerpilgrim", "gnewman4", "Roster13"},
        asset \in ValuedAssets}

InitAnalyze ==
    /\ MainOff
    /\ \E n \in 1..MaxTradeRows : args \in [1..n -> CacheRows]
    /\ returned = NotCalled

ApplyAnalyze ==
    /\ ~returned.called
    /\ \E df_2team \in analyze_2team_trades(args) :
          returned' = [called |-> TRUE, result |-> df_2team]
    /\ UNCHANGED <<main_pc, dry_run, fileVars, s3, s3_error, memVars, later_ran, args, objVars>>

SpecAnalyze == InitAnalyze /\ [][ApplyAnalyze]_vars
-----------------------------------------------------------------------------
(* Properties of the emitted records *)

\* The rows of a table whose name contains the text, as the lookups match it.
RowsNaming(table, name) == {j \in 1..Len(table) : StrContains(table[j].player, name)}
\* The value of the first such row, 0 when there is none.
ValueIn(table, name) ==
    IF RowsNaming(table, name) = {} THEN 0
    ELSE table[MinOrZero(RowsNaming(table, name))].value_2qb

\* The table the trade-time lookup of the i-th processed row reads: the snapshot
\* of the commit found when it was loaded, else the current table.
TableAtTrade(i) ==
    IF row_log[i].has_hist THEN RepoTables[row_log[i].commit_sha] ELSE df_current

\* The rounds r for which the record is the current-season pick of round r and
\* its origin has a lineage entry.
Pick2025Rounds(rec) ==
    {r \in 1..4 : /\ rec.asset_type = "pick"
                  /\ rec.asset_name = PickLabel(2025, r)
                  /\ LineageGet(PICK_LINEAGE, <<rec.origin_owner, r>>) # <<>>}
SlotOf(rec, r) == LineageGet(PICK_LINEAGE, <<rec.origin_owner, r>>)[1].pick_in_round
DraftedPlayer(rec, r) == LineageGet(PICK_LINEAGE, <<rec.origin_owner, r>>)[1].player
TradedBeforeDraft(rec) == ToOrdinal(rec.trade_date) < ToOrdinal(<<2025, 5, 5>>)

\* The tier table of the specification.
TierValueOfSlot(s) ==
    IF s \in 1..4 THEN 5430 ELSE IF s \in 5..8 THEN 2558 ELSE IF s \in 9..12 THEN 1232 ELSE -1
TierNameOfValue(v) ==
    IF v = 5430 THEN <<"E","a","r","l","y">>
    ELSE IF v = 2558 THEN <<"M","i","d">>
    ELSE IF v = 1232 THEN <<"L","a","t","e">>
    ELSE NaN

\* A round-1 current-season pick traded before the draft whose slot has no exact
\* entry in the table of the trade-time lookup.
TierCase(i, s) ==
    /\ 1 \in Pick2025Rounds(cached_values[i])
    /\ TradedBeforeDraft(cached_values[i])
    /\ SlotOf(cached_values[i], 1) = s
    /\ RowsNaming(TableAtTrade(i), ExactPickName(1, s)) = {}

\* C1: every current-season round-1 pick traded before the draft-completion
\* date, with a lineage entry of slot s in 1..12 and no exact pick-slot entry in
\* the table of the trade-time lookup, has value_at_trade 5430 for s in 1..4,
\* 2558 for s in 5..8, 1232 for s in 9..12; the tiers cover 1..12 without
\* overlap, and the tier name (Early/Mid/Late) agrees with the tier value.
C1_TierValueBySlot ==
    /\ \A s \in 1..12 :
          /\ PickTier_get_value(s) = TierValueOfSlot(s)
          /\ PickTier_get_tier_name(s) = TierNameOfValue(PickTier_get_value(s))
    /\ \A i \in 1..Len(cached_values) : \A s \in 1..12 :
          TierCase(i, s) =>
             /\ cached_values[i].value_at_trade = TierValueOfSlot(s)
             /\ cached_values[i].value_source_at_trade =
                   Src("Tier:", TierNameOfValue(TierValueOfSlot(s)) \o <<" ","1","s","t">>)

\* C1 occurs: a slot of the middle tier was valued at 2558 in a run that passed.
C1_Witness ==
    \E i \in 1..Len(cached_values) : \E s \in 5..8 :
        /\ TierCase(i, s)
        /\ cached_values[i].value_at_trade = 2558
        /\ s3 = "ok"

C3_NoHistoryFallsBackToCurrent ==
    \A i \in 1..Len(row_log) :
        (~row_log[i].has_hist /\ df_assets[i].asset_type \in {"player", "pick"}) =>
           /\ i <= Len(cached_values)
           /\ cached_values[i].value_at_trade =
                 IF df_assets[i].asset_type = "player"
                 THEN ValueIn(df_current, df_assets[i].asset_name)
                 ELSE ValuePick(df_assets[i], PICK_LINEAGE, PICK_PROJECTIONS,
                                df_current, df_current).rec[1].value_at_trade

\* The zero-value fraction of the emitted records against the threshold.
ZeroRecords == Cardinality({i \in 1..Len(cached_values) : cached_values[i].value_at_trade = 0})
AboveThreshold ==
    ZeroRecords * max_zero_value_pct[2] > max_zero_value_pct[1] * Len(cached_values)
GateRaised == s3_error = "ValidationError:too many zero values"
GatePassed == s3 = "ok" \/ (s3 = "exited" /\ s3_error = "")

\* C4: a Stage 3 run raises the data-quality ValidationError exactly when the
\* fraction of emitted records with value_at_trade 0 is strictly greater than the
\* configured threshold (a fraction equal to it passes), and once it is raised no
\* downstream step (Stage 4..7, copy, deploy) runs in that execution.
C4_QualityGate ==
    /\ GateRaised => AboveThreshold
    /\ GatePassed => ~AboveThreshold
    /\ GateRaised => (later_ran = {} /\ main_pc \in {"stage3", "exit1"})

\* C4 occurs: the gate was raised and the pipeline exited.
C4_Witness ==
    /\ GateRaised
    /\ AboveThreshold
    /\ main_pc = "exit1"

\* C5: a Stage 3 run that ends in a fatal condition (current table unreachable,
\* or zero-value fraction above the threshold) has written neither the output
\* file nor its backup.
C5_FailedRunWritesNoOutput ==
    s3_error \in {"APIError", "ValidationError:too many zero values"} =>
        (~output_written /\ ~backup_written)

\* The snapshots of the searched repository by day offset from the trade date.
ExactSnapshot == 0 \in args.offsets
EarlierInWindow == {k \in args.offsets : k < 0 /\ 0 - k <= args.search_days}
LaterInWindow == {k \in args.offsets : k > 0 /\ k <= args.search_days}
Found(K) == \E k \in K : returned.commit_sha = ShaAt(k)

\* C6: the search prefers the snapshot of the trade date, otherwise an earlier
\* snapshot within the window, otherwise a later one within the window; an
\* earlier one is chosen even when a later one is closer, and a later one only
\* when there is none on the trade date or on the N days before it.
C6_SelectionOrder ==
    returned.called =>
       /\ ExactSnapshot => returned.commit_sha = ShaAt(0)
       /\ (~ExactSnapshot /\ EarlierInWindow # {}) => Found(EarlierInWindow)
       /\ (~ExactSnapshot /\ EarlierInWindow = {} /\ LaterInWindow # {})
             => Found(LaterInWindow)
       /\ Found(LaterInWindow) => (~ExactSnapshot /\ EarlierInWindow = {})

\* C6 occurs: an earlier snapshot was chosen although a later one was closer.
C6_Witness ==
    /\ returned.called
    /\ ~ExactSnapshot
    /\ \E e \in EarlierInWindow, l \in LaterInWindow :
          /\ l < 0 - e
          /\ returned.commit_sha = ShaAt(e)

\* C7: within the chosen direction the snapshot of the smallest day distance in
\* 1..N is selected, a snapshot more than N days from the trade date is never
\* selected, and with no snapshot within N days either side (and none on the
\* trade date) the result is None.
C7_NearestAndBounded ==
    returned.called =>
       /\ (~ExactSnapshot /\ EarlierInWindow # {})
             => returned.commit_sha =
                   ShaAt(CHOOSE k \in EarlierInWindow : \A j \in EarlierInWindow : j <= k)
       /\ (~ExactSnapshot /\ EarlierInWindow = {} /\ LaterInWindow # {})
             => returned.commit_sha =
                   ShaAt(CHOOSE k \in LaterInWindow : \A j \in LaterInWindow : k <= j)
       /\ \A k \in args.offsets :
             (k > args.search_days \/ 0 - k > args.search_days)
                => returned.commit_sha # ShaAt(k)
       /\ (~ExactSnapshot /\ EarlierInWindow = {} /\ LaterInWindow = {})
             => returned.commit_sha = ""

\* C7 occurs: snapshots lay just outside the window on both sides and none was
\* selected.
C7_Witness ==
    /\ returned.called
    /\ returned.commit_sha = ""
    /\ (0 - args.search_days) - 1 \in args.offsets
    /\ args.search_days + 1 \in args.offsets

\* C8: a current-season pick (with a lineage entry) traded exactly on the
\* draft-completion date is post-draft: value_at_trade and value_current are the
\* drafted player's value in their tables, tagged as player lookups, never an
\* exact pick-slot entry, a tier value or a generic round value.
C8_DraftDayIsPostDraft ==
    \A i \in 1..Len(cached_values) : \A r \in Pick2025Rounds(cached_values[i]) :
        cached_values[i].trade_date = <<2025, 5, 5>> =>
           /\ cached_values[i].value_source_at_trade.kind
                 \in {"Player:", "Player not found:"}
           /\ cached_values[i].value_source_current.kind
                 \in {"Player:", "Player not found:"}
           /\ cached_values[i].value_source_at_trade.detail
                 \in {DraftedPlayer(cached_values[i], r),
                      DraftedPlayer(cached_values[i], r)
                         \o <<" ","(","p","o","s","t","-","d","r","a","f","t",")">>}
           /\ cached_values[i].value_at_trade =
                 ValueIn(TableAtTrade(i), DraftedPlayer(cached_values[i], r))
           /\ cached_values[i].value_current =
                 ValueIn(df_current, DraftedPlayer(cached_values[i], r))

\* C8 occurs: a pick traded on the draft-completion date took the player's value
\* from a snapshot that also priced its slot, at another value.
C8_Witness ==
    \E i \in 1..Len(cached_values) : \E r \in Pick2025Rounds(cached_values[i]) :
        /\ cached_values[i].trade_date = <<2025, 5, 5>>
        /\ row_log[i].has_hist
        /\ RowsNaming(TableAtTrade(i), ExactPickName(r, SlotOf(cached_values[i], r))) # {}
        /\ cached_values[i].value_at_trade > 0
        /\ cached_values[i].value_at_trade #
              ValueIn(TableAtTrade(i), ExactPickName(r, SlotOf(cached_values[i], r)))

\* C9: with W the non-empty set of weeks available for the team and round and t
\* the target week, the selected week is t if t is in W, otherwise the largest
\* w in W with w <= t if there is one, otherwise the smallest w in W; it is
\* always in W.  W = {7, 12}: t = 9 selects 7 and t = 3 selects 7.
C9_WeekSelection ==
    (returned.called /\ args.weeks # {}) =>
       /\ returned.best.week \in args.weeks
       /\ args.target_week \in args.weeks => returned.best.week = args.target_week
       /\ (args.target_week \notin args.weeks
             /\ \E w \in args.weeks : w <= args.target_week)
             => /\ returned.best.week <= args.target_week
                /\ \A w \in args.weeks : w <= args.target_week => w <= returned.best.week
       /\ (\A w \in args.weeks : w > args.target_week)
             => \A w \in args.weeks : returned.best.week <= w
       /\ (args.weeks = {7, 12} /\ args.target_week \in {3, 9}) => returned.best.week = 7
       /\ returned.best.column = WeekColumnName(returned.best.week, args.round_name)

\* C9 occurs: only weeks 7 and 12 of the 2nd round are available, the target
\* week is 3 and week 7 is selected.
C9_Witness ==
    /\ returned.called
    /\ args.weeks = {7, 12}
    /\ args.round_name = <<"2","n","d">>
    /\ args.target_week = 3
    /\ returned.best.week = 7

\* C10: every FAAB row '$<amount> FAAB' yields a record with value_at_trade and
\* value_current both amount x 1 and both provenance tags 'FAAB', whatever the
\* trade date and the value tables.
C10_FaabValue ==
    \A i \in 1..Len(cached_values) : \A amount \in FaabAmounts :
        (cached_values[i].asset_type = "faab"
            /\ cached_values[i].asset_name = FaabLabel(amount)) =>
           /\ cached_values[i].value_at_trade = amount * 1
           /\ cached_values[i].value_current = amount * 1
           /\ cached_values[i].value_source_at_trade = Src("FAAB", <<>>)
           /\ cached_values[i].value_source_current = Src("FAAB", <<>>)

\* C10 occurs: $50 of FAAB traded in season is valued 50 and 50.
C10_Witness ==
    \E i \in 1..Len(cached_values) :
        /\ cached_values[i].asset_type = "faab"
        /\ cached_values[i].asset_name = FaabLabel(50)
        /\ cached_values[i].trade_date = <<2025, 10, 24>>
        /\ cached_values[i].value_at_trade = 50
        /\ cached_values[i].value_current = 50

-----------------------------------------------------------------------------
(* Failures of single rows *)

\* A pick row whose label carries no round number.
MalformedPick(row) ==
    /\ row.asset_type = "pick"
    /\ \E y \in {2025, 2026, 2027, 2029} : row.asset_name = PickLabelNoRound(y)

\* C11: once the loop over the rows is over, every pick row whose label carries
\* no round number has its record, with value 0 at trade and now and the tag
\* 'Parse error' or 'Unknown pick'.
C11_MalformedRowIsRecorded ==
    (s3 \in {"saved", "backed_up", "ok", "failed", "exited"} /\ row_log # <<>>) =>
        \A i \in 1..Len(df_assets) :
            MalformedPick(df_assets[i]) =>
                /\ i <= Len(cached_values)
                /\ cached_values[i].value_at_trade = 0
                /\ cached_values[i].value_current = 0
                /\ cached_values[i].value_source_at_trade
                       \in {Src("Parse error", <<>>), Src("Unknown pick", <<>>)}

-----------------------------------------------------------------------------
(* Current-season picks traded before the draft *)

\* The generic label the pre-draft fallback of a round searches for.
GenericLabel2025(r) == GenericPickName(Lit.Y2026, ROUND_ORDINALS[r])

\* The precedence of the specification for round r, slot s in table T: the
\* value and the tag.
PreDraftAtTrade(T, r, s) ==
    IF RowsNaming(T, ExactPickName(r, s)) # {}
    THEN <<ValueIn(T, ExactPickName(r, s)), Src("Git:", ExactPickName(r, s))>>
    ELSE IF r = 1
    THEN <<TierValueOfSlot(s), Src("Tier:", TierNameOfValue(TierValueOfSlot(s)) \o <<" ","1","s","t">>)>>
    ELSE IF RowsNaming(T, GenericLabel2025(r)) # {}
    THEN <<ValueIn(T, GenericLabel2025(r)), Src("Fallback:Generic ", ROUND_ORDINALS[r])>>
    ELSE <<0, Src("Not found", <<>>)>>

\* C12: for a current-season pick with a lineage entry traded before the
\* draft-completion date, value_at_trade is the exact pick-slot entry of the
\* trade-time table if there is one; if not, the tier value for round 1 and the
\* generic round-label entry for the other rounds; if that is absent too, 0 with
\* the tag 'Not found'.  A round-1 pick is never 'Not found' at trade.
C12_PreDraftPrecedence ==
    \A i \in 1..Len(cached_values) : \A r \in Pick2025Rounds(cached_values[i]) :
        TradedBeforeDraft(cached_values[i]) =>
            /\ <<cached_values[i].value_at_trade, cached_values[i].value_source_at_trade>>
                   = PreDraftAtTrade(TableAtTrade(i), r, SlotOf(cached_values[i], r))
            /\ r = 1 => cached_values[i].value_source_at_trade # Src("Not found", <<>>)

\* C12 occurs: a round-2 pick traded before the draft, whose slot the trade-time
\* table does not list, took the value of the generic round-2 entry.
C12_Witness ==
    \E i \in 1..Len(cached_values) :
        /\ 2 \in Pick2025Rounds(cached_values[i])
        /\ TradedBeforeDraft(cached_values[i])
        /\ RowsNaming(TableAtTrade(i), ExactPickName(2, SlotOf(cached_values[i], 2))) = {}
        /\ RowsNaming(TableAtTrade(i), GenericLabel2025(2)) # {}
        /\ cached_values[i].value_at_trade = ValueIn(TableAtTrade(i), GenericLabel2025(2))
        /\ cached_values[i].value_at_trade > 0

\* C13: for a current-season pick with a lineage entry traded before the
\* draft-completion date, value_current is the value in the current table of the
\* player drafted with the slot, tagged Player:<player>, and 0 tagged
\* 'Player not found:<player>' when the current table does not list the player;
\* the historical table plays no part in it.
C13_PreDraftCurrentIsPlayerValue ==
    \A i \in 1..Len(cached_values) : \A r \in Pick2025Rounds(cached_values[i]) :
        TradedBeforeDraft(cached_values[i]) =>
            /\ cached_values[i].value_current
                   = ValueIn(df_current, DraftedPlayer(cached_values[i], r))
            /\ cached_values[i].value_source_current
                   = IF RowsNaming(df_current, DraftedPlayer(cached_values[i], r)) # {}
                     THEN Src("Player:", DraftedPlayer(cached_values[i], r))
                     ELSE Src("Player not found:", DraftedPlayer(cached_values[i], r))

\* C13 occurs: a pick traded before the draft, valued at trade from a loaded
\* snapshot that gives the drafted player another value than the current table,
\* has the current table's value of the player, which is neither its tier value
\* nor the value of its slot.
C13_Witness ==
    \E i \in 1..Len(cached_values) : \E r \in Pick2025Rounds(cached_values[i]) :
        /\ TradedBeforeDraft(cached_values[i])
        /\ row_log[i].has_hist
        /\ ValueIn(TableAtTrade(i), DraftedPlayer(cached_values[i], r))
              # ValueIn(df_current, DraftedPlayer(cached_values[i], r))
        /\ cached_values[i].value_current > 0
        /\ cached_values[i].value_current # cached_values[i].value_at_trade
        /\ cached_values[i].value_current = ValueIn(df_current, DraftedPlayer(cached_values[i], r))

-----------------------------------------------------------------------------
(* The records of a run *)

\* The record carries the identifying fields of the row unchanged.
SameRow(rec, row) ==
    /\ rec.asset_name = row.asset_name
    /\ rec.asset_type = row.asset_type
    /\ rec.trade_date = row.trade_date
    /\ rec.trade_id = row.trade_id
    /\ rec.receiving_team = row.receiving_team
    /\ rec.giving_team = row.giving_team
    /\ rec.origin_owner = row.origin_owner

\* C14: after k rows have been processed exactly k records have been emitted,
\* the i-th record being the one of the i-th row with its asset_name,
\* asset_type, trade_date, trade_id, receiving_team, giving_team and
\* origin_owner unchanged; the file a run writes holds one record per input row,
\* in input order.
C14_OneRecordPerRowInOrder ==
    /\ Len(cached_values) = idx - 1
    /\ Len(cached_values) <= Len(df_assets)
    /\ \A i \in 1..Len(cached_values) : SameRow(cached_values[i], df_assets[i])
    /\ output_written =>
          /\ Len(output_file) = Len(asset_transactions)
          /\ \A i \in 1..Len(output_file) : SameRow(output_file[i], asset_transactions[i])

\* C14 occurs: a run wrote the records of a batch of two rows of different kinds.
C14_Witness ==
    /\ output_written
    /\ Len(asset_transactions) = 2
    /\ asset_transactions[1].asset_type # asset_transactions[2].asset_type
    /\ output_file[1].asset_type = asset_transactions[1].asset_type
    /\ output_file[2].asset_type = asset_transactions[2].asset_type

\* C15: a run whose current value table could not be loaded has processed no
\* row, produced no record and written neither the output file nor its backup,
\* and nothing downstream of Stage 3 runs after it.
C15_NoCurrentTableAborts ==
    s3_error = "APIError" =>
        /\ s3 \in {"failed", "exited"}
        /\ row_log = <<>>
        /\ cached_values = <<>>
        /\ idx = 1
        /\ ~output_written /\ ~backup_written /\ output_file = <<>>
        /\ later_ran = {}
        /\ main_pc \in {"stage3", "exit1"}

\* C15 occurs: the load failed for a batch of two rows and main exited with 1.
C15_Witness ==
    /\ s3_error = "APIError"
    /\ Len(df_assets) = 2
    /\ main_pc = "exit1"

-----------------------------------------------------------------------------
(* Two runs on the same inputs *)

\* C16: two runs on the same asset rows, value tables, snapshots, draft results
\* and projections file yield the same records: the same values, provenance
\* tags and metadata in the same order.
C16_RunsAgree ==
    Len(returned) = 2 => returned[1].records = returned[2].records

-----------------------------------------------------------------------------
(* Future picks *)

\* The record is the pick of year y, round r.
FuturePick(rec, y, r) == rec.asset_type = "pick" /\ rec.asset_name = PickLabel(y, r)

\* The loaded projections hold a row of the team and a week column of the round.
HasProjection(team, r) ==
    /\ TeamRows(PICK_PROJECTIONS, team) # <<>>
    /\ get_available_weeks(PICK_PROJECTIONS.columns, ROUND_ORDINALS[r]) # <<>>

\* The team's projection in the column of the greatest week of the round.
LatestProjection(team, r) ==
    TeamRows(PICK_PROJECTIONS, team)[1].cells[
        WeekColumnName(SeqMax(get_available_weeks(PICK_PROJECTIONS.columns, ROUND_ORDINALS[r])),
                       ROUND_ORDINALS[r])]

\* C17: a pick of a year after 2026 whose origin team has projection data for
\* the round is valued, at trade and now, at the team's projection in the latest
\* week column of that round, whatever the trade date.
C17_BeyondHorizonUsesLatestWeek ==
    \A i \in 1..Len(cached_values) : \A y \in {2027, 2028, 2029} : \A r \in 1..4 :
        (FuturePick(cached_values[i], y, r) /\ HasProjection(cached_values[i].origin_owner, r)) =>
            /\ cached_values[i].value_at_trade = LatestProjection(cached_values[i].origin_owner, r)
            /\ cached_values[i].value_current = LatestProjection(cached_values[i].origin_owner, r)

\* The projections passed to the call hold a row of the team and a week column
\* of the round.
ArgsHaveProjection ==
    /\ args.round_num \in 1..5
    /\ TeamRows(args.projections, args.origin_owner) # <<>>
    /\ get_available_weeks(args.projections.columns, ROUND_ORDINALS[args.round_num]) # <<>>

\* The generic label '<year> <ordinal>' of the call.
ArgsGenericLabel ==
    GenericPickName(FormatInt(args.year),
                    RoundOrdinalGetDefault(args.round_num, FormatInt(args.round_num)))

\* C18: for a future pick whose origin team has no projection row, or no week
\* column of the round, the valuator returns the value of the first entry of
\* the value table matching '<year> <ordinal>' with the tag
\* 'Fallback:Generic:<year> <ordinal>' and no metadata, and 0 with the tag
\* 'Not found' when no entry matches; never a projection of another team.
C18_NoProjectionFallsBackToGeneric ==
    (returned.called /\ ~ArgsHaveProjection) =>
        returned.result =
            IF RowsNaming(args.df_values, ArgsGenericLabel) # {}
            THEN Ret(ValueIn(args.df_values, ArgsGenericLabel),
                     Src("Fallback:Generic:", ArgsGenericLabel), <<>>)
            ELSE Ret(0, Src("Not found", <<>>), <<>>)

\* C18 occurs: a 2026 first-round pick of a team without a projection row, in a
\* file that has first-round columns for other teams, took the generic value.
C18_Witness ==
    /\ returned.called
    /\ args.year = 2026 /\ args.round_num = 1
    /\ TeamRows(args.projections, args.origin_owner) = <<>>
    /\ get_available_weeks(args.projections.columns, ROUND_ORDINALS[1]) # <<>>
    /\ returned.result.value = ValueIn(args.df_values, ArgsGenericLabel)
    /\ returned.result.value > 0

-----------------------------------------------------------------------------
(* Lineage misses and players *)

\* A current-season pick row whose origin and round have no lineage entry.
NoLineageRow(row) ==
    /\ row.asset_type = "pick"
    /\ \E r \in 1..4 : /\ row.asset_name = PickLabel(2025, r)
                       /\ LineageGet(PICK_LINEAGE, <<row.origin_owner, r>>) = <<>>

\* C19: a current-season pick whose origin and round have no lineage entry is
\* recorded with value_at_trade 0 and value_current 0, both tagged
\* 'No lineage', whatever its trade date and the value tables; its iteration
\* does not end the run.
C19_NoLineageIsRecorded ==
    \A i \in 1..Len(df_assets) :
        (NoLineageRow(df_assets[i]) /\ Len(row_log) >= i) =>
            /\ Len(cached_values) >= i
            /\ cached_values[i].value_at_trade = 0
            /\ cached_values[i].value_current = 0
            /\ cached_values[i].value_source_at_trade = Src("No lineage", <<>>)
            /\ cached_values[i].value_source_current = Src("No lineage", <<>>)
            /\ s3_error # "Exception:IndexError"

\* C19 occurs: a pick of an origin the draft results do not hold, traded after
\* the draft and valued with a snapshot loaded, was recorded and the run went on
\* to write its file.
C19_Witness ==
    /\ s3 = "saved"
    /\ \E i \in 1..Len(df_assets) :
          /\ NoLineageRow(df_assets[i])
          /\ ~TradedBeforeDraft(df_assets[i])
          /\ row_log[i].has_hist
          /\ cached_values[i].value_source_at_trade = Src("No lineage", <<>>)

\* The name contains the text, letter case ignored, every character of the
\* text standing for itself.
ContainsIgnoringCase(name, text) ==
    \E i \in 1..(Len(name) - Len(text) + 1) :
        \A k \in 1..Len(text) : LowerChar(name[i + k - 1]) = LowerChar(text[k])

\* The value of the first entry of the table containing the text, 0 when no
\* entry does.
FirstContaining(table, text) ==
    IF \E j \in 1..Len(table) : ContainsIgnoringCase(table[j].player, text)
    THEN table[MinOrZero({j \in 1..Len(table) :
                            ContainsIgnoringCase(table[j].player, text)})].value_2qb
    ELSE 0

\* C20: the value of a player in a table is the value of the first entry, in
\* table order, whose name contains the asset name case-insensitively, and 0
\* with a not-found tag when no entry does: value_current in the current table,
\* value_at_trade in the snapshot loaded for the trade date.
C20_PlayerFirstContainingEntry ==
    \A i \in 1..Len(cached_values) :
        cached_values[i].asset_type = "player" =>
            /\ cached_values[i].value_current
                  = FirstContaining(df_current, cached_values[i].asset_name)
            /\ row_log[i].has_hist =>
                  cached_values[i].value_at_trade
                      = FirstContaining(RepoTables[row_log[i].commit_sha],
                                        cached_values[i].asset_name)
-----------------------------------------------------------------------------
(* The target week of a future pick *)

\* The value of a key of a metadata dict, the empty text when it has none.
MetaValue(meta, key) ==
    IF \E i \in 1..Len(meta) : meta[i].k = key
    THEN meta[CHOOSE i \in 1..Len(meta) : meta[i].k = key].v
    ELSE <<>>

\* Days from the first day of the season (2025-09-03) to the trade of the call.
ArgsDays == ToOrdinal(args.trade_date) - ToOrdinal(<<2025, 9, 3>>)

\* The week a day count falls in, weeks of seven days counted from 1, and 2 for
\* every day before the third week.
WeekHolding(days) ==
    CHOOSE w \in 2..60 : \/ days < 14 /\ w = 2
                         \/ days >= 14 /\ 7 * (w - 1) <= days /\ days < 7 * w

\* C21: the target week recorded for a 2026 pick valued from its team's
\* projection is max(2, floor(days / 7) + 1), days counted from the season
\* start to the trade: 2 for every trade before the third week of the season,
\* and beyond that the week the trade falls in, with no upper cap.
C21_TargetWeek ==
    (returned.called /\ args.year = 2026
       /\ returned.result.source.kind = "Projection:") =>
        /\ MetaValue(returned.result.meta, "target_week") = FormatInt(WeekHolding(ArgsDays))
        /\ ArgsDays <= 13 => MetaValue(returned.result.meta, "target_week") = <<"2">>
        /\ ArgsDays = 14 => MetaValue(returned.result.meta, "target_week") = <<"3">>
        /\ ArgsDays = 151 => MetaValue(returned.result.meta, "target_week") = <<"2", "2">>

\* C21 occurs: a 2026 pick traded on 2026-02-01, 151 days into the season, was
\* valued from a projection with target week 22, past the 18 weeks of a season.
C21_Witness ==
    /\ returned.called
    /\ args.year = 2026
    /\ args.trade_date = <<2026, 2, 1>>
    /\ returned.result.source.kind = "Projection:"
    /\ MetaValue(returned.result.meta, "target_week") = <<"2", "2">>

-----------------------------------------------------------------------------
(* Pick labels from Stage 2 to Stage 3 *)

\* f"{season} Round {round}" of the parsed season text and round number.
Reserialized(parsed) ==
    parsed.season \o <<" ">> \o Lit.Round \o <<" ">> \o FormatInt(parsed.round_num[1])

\* C22: every label Stage 2 builds as '<season> Round <round>' is parsed by the
\* valuator it is handed to into the same season and round, and the parsed
\* season and round written in the same format give the label back exactly.
C22_LabelRoundTrip ==
    returned.called =>
        /\ returned.parsed.exc = ""
        /\ returned.parsed.season = FormatValue(args.season)
        /\ returned.parsed.round_num = args.round_num
        /\ Reserialized(returned.parsed) = returned.row.asset_name

\* The same for the picks whose trade record carries a round.
C22_RoundTripWhenRoundGiven ==
    (returned.called /\ args.round_num # <<>>) =>
        /\ returned.parsed.exc = ""
        /\ returned.parsed.season = FormatValue(args.season)
        /\ returned.parsed.round_num = args.round_num
        /\ Reserialized(returned.parsed) = returned.row.asset_name

-----------------------------------------------------------------------------
(* The value fields of the records *)

\* The tags of a lookup that found nothing.
MissTags ==
    {"Not found", "Player not found:", "No lineage", "Parse error", "Unknown pick",
     "No Git commit"}

\* Every value the run reads is non-negative: the current table, the tables of
\* the snapshots, the projections and the tier values.
InputsNonNegative ==
    /\ \A j \in 1..Len(df_current) : df_current[j].value_2qb >= 0
    /\ \A sha \in DOMAIN RepoTables :
          \A j \in 1..Len(RepoTables[sha]) : RepoTables[sha][j].value_2qb >= 0
    /\ \A j \in 1..Len(PICK_PROJECTIONS.rows) :
          \A c \in DOMAIN PICK_PROJECTIONS.rows[j].cells :
              PICK_PROJECTIONS.rows[j].cells[c] >= 0
    /\ \A s \in 1..LeagueSize : PickTier_get_value(s) >= 0

\* C23: with non-negative values in the value tables, the tiers, the
\* projections and the FAAB amounts, every emitted record has
\* value_at_trade >= 0 and value_current >= 0, and a value whose tag says the
\* lookup found nothing is exactly 0.
C23_ValuesNonNegative ==
    InputsNonNegative =>
        \A i \in 1..Len(cached_values) :
            /\ cached_values[i].value_at_trade >= 0
            /\ cached_values[i].value_current >= 0
            /\ cached_values[i].value_source_at_trade.kind \in MissTags
                  => cached_values[i].value_at_trade = 0
            /\ cached_values[i].value_source_current.kind \in MissTags
                  => cached_values[i].value_current = 0

\* C23 occurs: a run saved a record whose value at trade is the 0 of a miss and
\* whose current value was found.
C23_Witness ==
    /\ s3 = "saved"
    /\ InputsNonNegative
    /\ \E i \in 1..Len(output_file) :
          /\ output_file[i].value_source_at_trade.kind \in MissTags
          /\ output_file[i].value_at_trade = 0
          /\ output_file[i].value_current > 0

-----------------------------------------------------------------------------
(* The tables of the snapshots within a run *)

\* Row i fetched the table of its snapshot and the fetch succeeded.
FetchedAt(i) == row_log[i].fetched /\ row_log[i].has_hist

\* C24: the table of a snapshot is held only once a row that resolved to the
\* snapshot has fetched it; after a successful fetch no later row resolving to
\* the same snapshot fetches again, each of them is valued with the table held,
\* which is the table of the snapshot, and two such rows naming the same asset
\* get the same value at trade.
C24_SnapshotFetchedOnce ==
    /\ \A sha \in DOMAIN git_df_cache :
          /\ \E i \in 1..Len(row_log) : row_log[i].commit_sha = sha /\ FetchedAt(i)
          /\ git_df_cache[sha] = RepoTables[sha]
    /\ \A i \in 1..Len(row_log) : \A j \in (i + 1)..Len(row_log) :
          (FetchedAt(i) /\ row_log[j].commit_sha = row_log[i].commit_sha) =>
              /\ ~row_log[j].fetched
              /\ row_log[j].has_hist
              /\ (Len(cached_values) >= j
                    /\ SameRow(cached_values[i], df_assets[j])) =>
                    cached_values[j].value_at_trade = cached_values[i].value_at_trade

\* C24 occurs: the second row of a run resolved to the snapshot the first row
\* had fetched and was valued from the table held, without a fetch.
C24_Witness ==
    /\ Len(row_log) = 2
    /\ FetchedAt(1)
    /\ row_log[2].commit_sha = row_log[1].commit_sha
    /\ ~row_log[2].fetched /\ row_log[2].has_hist
    /\ Len(cached_values) = 2
    /\ cached_values[2].value_source_at_trade.kind = "Git:"

-----------------------------------------------------------------------------
(* fetch_with_retry *)

\* The retries of the call so far: the attempts after the first.
Retries == IF returned.attempt_number = 0 THEN 0 ELSE returned.attempt_number - 1

\* C25: a call whose requests keep failing is retried three times after the
\* initial attempt, with a wait before each retry, and then raises the error
\* to the caller; no call makes more than the initial attempt and three
\* retries.
C25_ThreeRetriesThenRaise ==
    /\ Retries <= 3
    /\ (returned.pc = "decide" \/ returned.pc = "done") => Len(returned.slept) = Retries
    /\ (returned.pc = "done" /\ returned.raised # "") => Retries = 3

\* The same with the count the decorator has: three attempts, two retries.
C25_TwoRetriesThenRaise ==
    /\ Retries <= 2
    /\ (returned.pc = "decide" \/ returned.pc = "done") => Len(returned.slept) = Retries
    /\ (returned.pc = "done" /\ returned.raised # "") => Retries = 2

-----------------------------------------------------------------------------
(* TeamResolver.update_team_name *)

\* The names a history text lists: its parts between ' | '.
RECURSIVE HistoryEntries(_)
HistoryEntries(historical) ==
    IF Find(<<" ", "|", " ">>, historical) = 0 THEN <<historical>>
    ELSE <<SubSeq(historical, 1, Find(<<" ", "|", " ">>, historical) - 1)>>
         \o HistoryEntries(SubSeq(historical, Find(<<" ", "|", " ">>, historical) + 3,
                                  Len(historical)))

\* The calls made so far on a roster, in order.
CallsOn(roster_id) == SelectSeq(returned, LAMBDA c : c.roster_id = roster_id)

\* Every name a roster has had: those its row of the loaded file lists, the
\* current name of that row, and the names given to it since.
NamesHad(roster_id) ==
    {HistoryEntries(args[roster_id].historical_team_names)[i] :
        i \in 1..Len(HistoryEntries(args[roster_id].historical_team_names))}
    \cup {args[roster_id].current_team_name}
    \cup {CallsOn(roster_id)[i].new_team_name : i \in 1..Len(CallsOn(roster_id))}

\* The history of a roster lists each name once.
ListedOnce(roster_id) ==
    \A i, j \in 1..Len(HistoryEntries(teams[roster_id].historical_team_names)) :
        HistoryEntries(teams[roster_id].historical_team_names)[i]
          = HistoryEntries(teams[roster_id].historical_team_names)[j] => i = j

\* C26: after any calls of update_team_name, the current name of a roster is
\* the last name given to it, its history lists every name it has had, each
\* once; a call naming the current name changes nothing; a call for an unknown
\* roster returns False and leaves every team as it was.
C26_AuditTrail ==
    /\ \A r \in DOMAIN teams :
          /\ CallsOn(r) # <<>> =>
                teams[r].current_team_name = CallsOn(r)[Len(CallsOn(r))].new_team_name
          /\ \A name \in NamesHad(r) :
                \E i \in 1..Len(HistoryEntries(teams[r].historical_team_names)) :
                    HistoryEntries(teams[r].historical_team_names)[i] = name
          /\ ListedOnce(r)
    /\ returned # <<>> =>
          /\ returned[Len(returned)].roster_id \notin DOMAIN teams =>
                /\ returned[Len(returned)].result = FALSE
                /\ teams = returned[Len(returned)].before
          /\ (returned[Len(returned)].roster_id \in DOMAIN teams
                /\ returned[Len(returned)].before[returned[Len(returned)].roster_id]
                     .current_team_name = returned[Len(returned)].new_team_name) =>
                teams = returned[Len(returned)].before
    /\ mapping_file = teams

\* The history part of the trail when no call gives a name that occurs inside
\* a longer name.
C26_TrailOfNamesNotInsideAnother ==
    (\A k \in 1..Len(returned) : returned[k].new_team_name # TeamBears) =>
        \A r \in DOMAIN teams :
            /\ \A name \in NamesHad(r) :
                  \E i \in 1..Len(HistoryEntries(teams[r].historical_team_names)) :
                      HistoryEntries(teams[r].historical_team_names)[i] = name
            /\ ListedOnce(r)

-----------------------------------------------------------------------------
(* analyze_2team_trades *)

\* The sum of a value column over the rows of a trade received by one of the
\* given teams.
RECURSIVE SumOfRows(_, _, _, _)
SumOfRows(rows, trade_id, receivers, column) ==
    IF rows = <<>> THEN 0
    ELSE (IF Head(rows).trade_id = trade_id /\ Head(rows).receiving_team \in receivers
          THEN Head(rows)[column] ELSE 0)
         + SumOfRows(Tail(rows), trade_id, receivers, column)

ReceiversOf(rows) == {rows[i].receiving_team : i \in 1..Len(rows)}

\* C27: in the analysis of 2-team trades every trade of the input has one
\* result row; side A holds the values of the rows received by team_a, side B
\* those of all other rows of the trade, so the two sides add up to the sum of
\* value_at_trade (and of value_current) over the rows of the trade; and
\* margin_at_trade is |team_a_value_then - team_b_value_then|.
C27_AggregationConservesValue ==
    returned.called =>
        /\ \A i \in 1..Len(args) :
              \E k \in 1..Len(returned.result) :
                  returned.result[k].transaction_id = args[i].trade_id
        /\ \A k \in 1..Len(returned.result) :
              /\ returned.result[k].team_a_value_then
                   = SumOfRows(args, returned.result[k].transaction_id,
                               {returned.result[k].team_a}, "value_at_trade")
              /\ returned.result[k].team_a_value_then + returned.result[k].team_b_value_then
                   = SumOfRows(args, returned.result[k].transaction_id,
                               ReceiversOf(args), "value_at_trade")
              /\ returned.result[k].team_a_value_now
                   = SumOfRows(args, returned.result[k].transaction_id,
                               {returned.result[k].team_a}, "value_current")
              /\ returned.result[k].team_a_value_now + returned.result[k].team_b_value_now
                   = SumOfRows(args, returned.result[k].transaction_id,
                               ReceiversOf(args), "value_current")
              /\ returned.result[k].margin_at_trade
                   = Abs(returned.result[k].team_a_value_then
                           - returned.result[k].team_b_value_then)
              /\ \A j \in 1..Len(returned.result) :
                    returned.result[j].transaction_id = returned.result[k].transaction_id
                      => j = k

\* C27 occurs: a trade of three rows, one of them received by a roster that is
\* neither roster_a nor roster_b, was analysed with values on both sides.
C27_Witness ==
    /\ returned.called
    /\ Len(args) = 3
    /\ Len(returned.result) = 1
    /\ \E i \in 1..3 : args[i].receiving_team \notin {returned.result[1].team_a,
                                                      returned.result[1].team_b}
    /\ returned.result[1].team_a_value_then > 0
    /\ returned.result[1].team_b_value_then > returned.result[1].team_a_value_then

-----------------------------------------------------------------------------
(* Future picks: the value at trade and the current value *)

\* C28: a 2026, 2027 or 2028 pick whose origin team has a projection row and a
\* week column of the round is recorded with value_at_trade = value_current and
\* with equal tags, both from the projection, whatever the snapshot loaded for
\* the trade date and the current table hold.
C28_FuturePickValuesEqual ==
    \A i \in 1..Len(cached_values) :
        \A y \in {2026, 2027, 2028}, r \in 1..4 :
            (FuturePick(cached_values[i], y, r)
               /\ HasProjection(cached_values[i].origin_owner, r)) =>
                /\ cached_values[i].value_at_trade = cached_values[i].value_current
                /\ cached_values[i].value_source_at_trade = cached_values[i].value_source_current
                /\ cached_values[i].value_source_current.kind = "Projection:"

\* C28 occurs: such a pick was valued while the snapshot of its trade date was
\* loaded and differs from the current table, and both values are the
\* projection.
C28_Witness ==
    \E i \in 1..Len(cached_values) :
        \E y \in {2026, 2027, 2028}, r \in 1..4 :
            /\ FuturePick(cached_values[i], y, r)
            /\ HasProjection(cached_values[i].origin_owner, r)
            /\ row_log[i].has_hist
            /\ RepoTables[row_log[i].commit_sha] # df_current
            /\ cached_values[i].value_at_trade = cached_values[i].value_current
            /\ cached_values[i].value_at_trade > 0

-----------------------------------------------------------------------------
(* The lineage under the static origin mapping *)

\* The slots of a round the mapping gives to an owner.
SlotsOfOwner(owner, r) == {s \in 1..LeagueSize : get_pick_origin_owner(r, s) = owner}

\* The keys of the lineage holding an entry for a draft row.
KeysHolding(lineage, row) ==
    {key \in DOMAIN lineage :
        \E k \in 1..Len(lineage[key]) : lineage[key][k] = LineageEntry(row)}

\* C29: the origin mapping gives each of the 12 owners exactly one slot in each
\* of the rounds 1..4, the same in every round; so for draft results with at
\* most one row per round and slot every key of the lineage holds exactly one
\* entry, every draft row is under exactly one key, and the first entry under
\* the key of a row's origin and round is that row's pick.
C29_LineageUnambiguous ==
    /\ \A r \in 1..4 : \A owner \in Owners :
          /\ Cardinality(SlotsOfOwner(owner, r)) = 1
          /\ SlotsOfOwner(owner, r) = SlotsOfOwner(owner, 1)
    /\ Cardinality(Owners) = 12
    /\ returned.called =>
          /\ \A key \in DOMAIN returned.lineage : Len(returned.lineage[key]) = 1
          /\ \A i \in 1..Len(args) :
                /\ Cardinality(KeysHolding(returned.lineage, args[i])) = 1
                /\ LineageGet(returned.lineage,
                              <<get_pick_origin_owner(args[i].Round, args[i].PickInRound),
                                args[i].Round>>)
                     = <<LineageEntry(args[i])>>

\* C29 occurs: the lineage of a draft of four full rounds was built, 48 keys of
\* one entry each.
C29_Witness ==
    /\ returned.called
    /\ Len(args) = 48
    /\ Cardinality(DOMAIN returned.lineage) = 48
    /\ \A i \in 1..48 : args[i].Round \in 1..4 /\ args[i].PickInRound \in 1..12

-----------------------------------------------------------------------------
(* The zero-value counter *)

\* C30: when the loop over the rows has ended and the records are written, the
\* zero_value_count accumulated by cache_asset_values is the number of written
\* records whose value_at_trade is 0, the count the validator of the Stage 3
\* output takes from the file, for every batch, FAAB rows included.
C30_ZeroCountMatchesValidator ==
    s3 \in {"saved", "backed_up", "ok"} => zero_value_count = CountZero(output_file)

\* The same count over the records that are not FAAB.
C30_ZeroCountOfNonFaab ==
    s3 \in {"saved", "backed_up", "ok"} =>
        zero_value_count
          = CountZero(SelectSeq(output_file, LAMBDA rec : rec.asset_type # "faab"))

=============================================================================
